---------------------------- MODULE Spec2Model ----------------------------
(***************************************************************************)
(* A model of the meet-agent backend: the conversation session             *)
(* (src/utils/chat_handler.py), the chat and transcript endpoints          *)
(* (src/api/main.py) and the transcript processor                          *)
(* (src/models/gemini_transcript_processor.py).                            *)
(*                                                                         *)
(* Python strings are modelled as sequences of one-character strings, so   *)
(* that lower(), strip(), split() and the `in` substring test are computed *)
(* as Python computes them.  Python's None and the other non-string values *)
(* are tagged records.                                                     *)
(***************************************************************************)
EXTENDS Integers, Sequences, FiniteSets, TLC

(***************************************************************************)
(* Python string primitives                                                *)
(***************************************************************************)
UpperChars ==
    << "A", "B", "C", "D", "E", "F", "G", "H", "I", "J", "K", "L", "M",
       "N", "O", "P", "Q", "R", "S", "T", "U", "V", "W", "X", "Y", "Z" >>

LowerChars ==
    << "a", "b", "c", "d", "e", "f", "g", "h", "i", "j", "k", "l", "m",
       "n", "o", "p", "q", "r", "s", "t", "u", "v", "w", "x", "y", "z" >>

Digits ==
    << "0", "1", "2", "3", "4", "5", "6", "7", "8", "9" >>

Whitespace == {" ", "\n", "\t", "\r"}

\* the element of a one-element set; Only({ e : x \in {v} }) is e with x
\* standing for the value v, computed once
Only(S) == CHOOSE x \in S : TRUE

Min(a, b) == IF a < b THEN a ELSE b

Max(a, b) == IF a > b THEN a ELSE b

\* str.lower() on one character
LowerChar(c) ==
    IF \E i \in 1..26 : UpperChars[i] = c
    THEN LowerChars[CHOOSE i \in 1..26 : UpperChars[i] = c]
    ELSE c

\* str.lower()
Lower(s) == [i \in 1..Len(s) |-> LowerChar(s[i])]

\* s[a:b] with Python's 0-based, end-exclusive, clamped, negative-from-the-end indices
Slice(s, a, b) ==
    LET n  == Len(s)
        a1 == IF a < 0 THEN Max(n + a, 0) ELSE Min(a, n)
        b1 == IF b < 0 THEN Max(n + b, 0) ELSE Min(b, n)
    IN  IF a1 >= b1 THEN << >> ELSE SubSeq(s, a1 + 1, b1)

\* s.strip(chars): drop leading and trailing characters that are in cs
StripChars(s, cs) ==
    LET keep == {i \in 1..Len(s) : s[i] \notin cs}
    IN  IF keep = {} THEN << >>
        ELSE LET lo == CHOOSE i \in keep : \A j \in keep : i <= j
                 hi == CHOOSE i \in keep : \A j \in keep : i >= j
             IN  SubSeq(s, lo, hi)

\* s.strip()
Strip(s) == StripChars(s, Whitespace)

\* the 0-based positions at which sub occurs in s
Occurrences(s, sub) ==
    {i \in 0..(Len(s) - Len(sub)) : SubSeq(s, i + 1, i + Len(sub)) = sub}

\* sub in s
Contains(s, sub) == Occurrences(s, sub) # {}

\* s.find(sub): 0-based index of the first occurrence, -1 when absent
Find(s, sub) ==
    LET occ == Occurrences(s, sub)
    IN  IF occ = {} THEN -1 ELSE CHOOSE i \in occ : \A j \in occ : i <= j

\* s.rfind(sub): 0-based index of the last occurrence, -1 when absent
RFind(s, sub) ==
    LET occ == Occurrences(s, sub)
    IN  IF occ = {} THEN -1 ELSE CHOOSE i \in occ : \A j \in occ : i >= j

\* s.split(sep, 1): one part when sep is absent, else the text before and after
\* the first occurrence
SplitOnce(s, sep) ==
    LET i == Find(s, sep)
    IN  IF i = -1 THEN << s >>
        ELSE << Slice(s, 0, i), Slice(s, i + Len(sep), Len(s)) >>

\* s.split(sep): every part between occurrences of the one-character sep
RECURSIVE Split(_, _)
Split(s, sep) ==
    LET i == Find(s, sep)
    IN  IF i = -1 THEN << s >>
        ELSE << Slice(s, 0, i) >> \o Split(Slice(s, i + Len(sep), Len(s)), sep)

\* s.splitlines(): lines without their terminators; no line for an empty string
\* and none after a final terminator
SplitLines(s) ==
    LET parts == Split(s, << "\n" >>)
    IN  IF s = << >> THEN << >>
        ELSE IF parts[Len(parts)] = << >> THEN SubSeq(parts, 1, Len(parts) - 1)
        ELSE parts

(***************************************************************************)
(* Fixed texts of the conversation session (src/utils/chat_handler.py)     *)
(***************************************************************************)
\* 'Please upload or provide a transcript first.'
NeedTranscriptMsg ==
    << "P", "l", "e", "a", "s", "e", " ", "u", "p", "l", "o", "a", "d", " ", "o", "r", " ",
       "p", "r", "o", "v", "i", "d", "e", " ", "a", " ", "t", "r", "a", "n", "s", "c", "r",
       "i", "p", "t", " ", "f", "i", "r", "s", "t", "." >>

\* 'Notion integration is not configured. Set NOTION_TOKEN and initialize NotionIntegration.'
NotionNotConfiguredMsg ==
    << "N", "o", "t", "i", "o", "n", " ", "i", "n", "t", "e", "g", "r", "a", "t", "i", "o",
       "n", " ", "i", "s", " ", "n", "o", "t", " ", "c", "o", "n", "f", "i", "g", "u", "r",
       "e", "d", ".", " ", "S", "e", "t", " ", "N", "O", "T", "I", "O", "N", "_", "T", "O",
       "K", "E", "N", " ", "a", "n", "d", " ", "i", "n", "i", "t", "i", "a", "l", "i", "z",
       "e", " ", "N", "o", "t", "i", "o", "n", "I", "n", "t", "e", "g", "r", "a", "t", "i",
       "o", "n", "." >>

\* 'No response from model. Check API key, quota or model availability.'
NoResponseMsg ==
    << "N", "o", " ", "r", "e", "s", "p", "o", "n", "s", "e", " ", "f", "r", "o", "m", " ",
       "m", "o", "d", "e", "l", ".", " ", "C", "h", "e", "c", "k", " ", "A", "P", "I", " ",
       "k", "e", "y", ",", " ", "q", "u", "o", "t", "a", " ", "o", "r", " ", "m", "o", "d",
       "e", "l", " ", "a", "v", "a", "i", "l", "a", "b", "i", "l", "i", "t", "y", "." >>

\* 'Transcript processed. Summary available.'
TranscriptProcessedMsg ==
    << "T", "r", "a", "n", "s", "c", "r", "i", "p", "t", " ", "p", "r", "o", "c", "e", "s",
       "s", "e", "d", ".", " ", "S", "u", "m", "m", "a", "r", "y", " ", "a", "v", "a", "i",
       "l", "a", "b", "l", "e", "." >>

\* 'Ready to analyze transcripts.'
ReadyMsg ==
    << "R", "e", "a", "d", "y", " ", "t", "o", " ", "a", "n", "a", "l", "y", "z", "e", " ",
       "t", "r", "a", "n", "s", "c", "r", "i", "p", "t", "s", "." >>

\* 'Error processing transcript: '
ErrorProcessingPrefix ==
    << "E", "r", "r", "o", "r", " ", "p", "r", "o", "c", "e", "s", "s", "i", "n", "g", " ",
       "t", "r", "a", "n", "s", "c", "r", "i", "p", "t", ":", " " >>

\* 'Saved to Notion: page id '
SavedToNotionPrefix ==
    << "S", "a", "v", "e", "d", " ", "t", "o", " ", "N", "o", "t", "i", "o", "n", ":", " ",
       "p", "a", "g", "e", " ", "i", "d", " " >>

\* 'Failed to write to Notion: '
FailedNotionPrefix ==
    << "F", "a", "i", "l", "e", "d", " ", "t", "o", " ", "w", "r", "i", "t", "e", " ", "t",
       "o", " ", "N", "o", "t", "i", "o", "n", ":", " " >>

\* 'Meeting Notes - auto ('
AutoTitlePrefix ==
    << "M", "e", "e", "t", "i", "n", "g", " ", "N", "o", "t", "e", "s", " ", "-", " ", "a",
       "u", "t", "o", " ", "(" >>

\* 'untitled'
Untitled ==
    << "u", "n", "t", "i", "t", "l", "e", "d" >>

\* 'titled'
SepTitled ==
    << "t", "i", "t", "l", "e", "d" >>

\* 'title'
SepTitle ==
    << "t", "i", "t", "l", "e" >>

\* the trigger phrases of an explicit Notion write, in the order of the list
notion_triggers ==
    << << "s", "a", "v", "e", " ", "t", "o", " ", "n", "o", "t", "i", "o", "n" >>,
       << "w", "r", "i", "t", "e", " ", "t", "o", " ", "n", "o", "t", "i", "o", "n" >>,
       << "c", "r", "e", "a", "t", "e", " ", "n", "o", "t", "i", "o", "n", " ", "p", "a", "g", "e" >>,
       << "e", "x", "p", "o", "r", "t", " ", "t", "o", " ", "n", "o", "t", "i", "o", "n" >>,
       << "s", "t", "o", "r", "e", " ", "t", "o", " ", "n", "o", "t", "i", "o", "n" >>,
       << "s", "a", "v", "e", " ", "n", "o", "t", "e", "s", " ", "t", "o", " ", "n", "o", "t", "i", "o", "n" >>,
       << "p", "l", "e", "a", "s", "e", " ", "s", "a", "v", "e", " ", "t", "o", " ", "n", "o", "t", "i", "o", "n" >>,
       << "p", "l", "e", "a", "s", "e", " ", "w", "r", "i", "t", "e", " ", "t", "o", " ", "n", "o", "t", "i", "o", "n" >>,
       << "c", "r", "e", "a", "t", "e", " ", "a", " ", "n", "o", "t", "i", "o", "n", " ", "p", "a", "g", "e" >>,
       << "s", "a", "v", "e", " ", "m", "e", "e", "t", "i", "n", "g", " ", "t", "o", " ", "n", "o", "t", "i", "o", "n" >> >>

SchedulingKeywords ==
    << << "s", "c", "h", "e", "d", "u", "l", "e" >>,
       << "m", "e", "e", "t", "i", "n", "g" >>,
       << "c", "a", "l", "e", "n", "d", "a", "r" >>,
       << "w", "h", "e", "n" >> >>

TaskKeywords ==
    << << "t", "a", "s", "k" >>,
       << "a", "c", "t", "i", "o", "n" >>,
       << "t", "o", "d", "o" >>,
       << "a", "s", "s", "i", "g", "n", "m", "e", "n", "t" >> >>

DecisionKeywords ==
    << << "d", "e", "c", "i", "d", "e" >>,
       << "d", "e", "c", "i", "s", "i", "o", "n" >>,
       << "a", "g", "r", "e", "e", "d" >>,
       << "c", "o", "n", "c", "l", "u", "s", "i", "o", "n" >> >>

(***************************************************************************)
(* Python values other than plain strings: tagged records.  A string that  *)
(* may also be None (or any other value) is wrapped by Str.                *)
(***************************************************************************)
None == [py |-> "None"]

Str(s) == [py |-> "str", s |-> s]

PyList(xs) == [py |-> "list", items |-> xs]

\* a mapping, as the sequence of its <<key, value>> pairs in insertion order
PyDict(kvs) == [py |-> "dict", pairs |-> kvs]

\* an object with attributes, as the sequence of its <<name, value>> pairs
PyObject(kvs) == [py |-> "object", attrs |-> kvs]

IsStr(v) == v.py = "str"

IsDict(v) == v.py = "dict"

\* Python truthiness: bool(v)
Truthy(v) ==
    CASE v.py = "None"   -> FALSE
      [] v.py = "str"    -> v.s # << >>
      [] v.py = "list"   -> v.items # << >>
      [] v.py = "dict"   -> v.pairs # << >>
      [] OTHER           -> TRUE

\* k in d
HasKey(kvs, k) == \E i \in 1..Len(kvs) : kvs[i][1] = k

\* d[k] for a present key
Lookup(kvs, k) == kvs[CHOOSE i \in 1..Len(kvs) : kvs[i][1] = k][2]

\* d.get(k, default)
DictGet(d, k, default) == IF HasKey(d.pairs, k) THEN Lookup(d.pairs, k) ELSE default

(***************************************************************************)
(* json.dumps, as far as the values of this program need it                *)
(***************************************************************************)
\* str(n) for n >= 0
RECURSIVE NatToStr(_)
NatToStr(n) ==
    IF n < 10 THEN << Digits[n + 1] >>
    ELSE NatToStr(n \div 10) \o << Digits[(n % 10) + 1] >>

\* the JSON escape of one character of a string
JsonEscapeChar(c) ==
    CASE c = "\"" -> << "\\", "\"" >>
      [] c = "\\" -> << "\\", "\\" >>
      [] c = "\n" -> << "\\", "n" >>
      [] OTHER    -> << c >>

RECURSIVE JsonEscape(_)
JsonEscape(s) ==
    IF s = << >> THEN << >> ELSE JsonEscapeChar(Head(s)) \o JsonEscape(Tail(s))

\* json.dumps(v): [ok |-> TRUE, s |-> text], or ok = FALSE for the TypeError of a
\* value that is not JSON serializable
RECURSIVE JsonDumps(_)
JsonDumps(v) ==
    LET Quote(s) == << "\"" >> \o JsonEscape(s) \o << "\"" >>
        \* ", ".join of the rendered items xs[i..]
        Join[i \in 1..(Len(IF v.py = "list" THEN v.items ELSE IF v.py = "dict" THEN v.pairs ELSE << >>) + 1)] ==
            LET xs   == IF v.py = "list" THEN v.items ELSE v.pairs
                item == IF v.py = "list" THEN JsonDumps(xs[i]) ELSE JsonDumps(xs[i][2])
                head == IF v.py = "list" THEN item.s
                        ELSE Quote(xs[i][1]) \o << ":", " " >> \o item.s
            IN  IF i > Len(xs) THEN [ok |-> TRUE, s |-> << >>]
                ELSE IF ~item.ok \/ ~Join[i + 1].ok THEN [ok |-> FALSE, s |-> << >>]
                ELSE [ok |-> TRUE,
                      s  |-> head \o (IF i < Len(xs) THEN << ",", " " >> ELSE << >>)
                                  \o Join[i + 1].s]
    IN  CASE v.py = "None" -> [ok |-> TRUE, s |-> << "n", "u", "l", "l" >>]
          [] v.py = "str"  -> [ok |-> TRUE, s |-> Quote(v.s)]
          [] v.py = "int"  -> [ok |-> TRUE, s |-> NatToStr(v.n)]
          [] v.py = "bool" -> [ok |-> TRUE,
                               s  |-> IF v.b THEN << "t", "r", "u", "e" >>
                                      ELSE << "f", "a", "l", "s", "e" >>]
          [] v.py = "list" -> [ok |-> Join[1].ok, s |-> << "[" >> \o Join[1].s \o << "]" >>]
          [] v.py = "dict" -> [ok |-> Join[1].ok, s |-> << "{" >> \o Join[1].s \o << "}" >>]
          [] OTHER         -> [ok |-> FALSE, s |-> << >>]

(***************************************************************************)
(* ChatHandler._call_model (src/utils/chat_handler.py:59-96)               *)
(*                                                                         *)
(* The SDK is the environment: each of the seven candidate calls is        *)
(* absent, raises, or returns a response value.                            *)
(***************************************************************************)
Absent == [out |-> "absent"]

Raises == [out |-> "raise"]

Returns(resp) == [out |-> "return", resp |-> resp]

\* the attribute of an object whose access raises (a property that throws)
AttrRaises == [py |-> "raises"]

\* hasattr(resp, name), for an attribute whose access does not raise
HasAttr(resp, name) ==
    resp.py = "object" /\ \E i \in 1..Len(resp.attrs) : resp.attrs[i][1] = name

GetAttr(resp, name) ==
    resp.attrs[CHOOSE i \in 1..Len(resp.attrs) : resp.attrs[i][1] = name][2]

\* the names of the candidate calls, in probing order
ModelMethods == << "generate_content", "generate_text", "create_text", "generate" >>

GenaiHelpers == << "generate_text", "generate", "create_text" >>

NumCandidates == Len(ModelMethods) + Len(GenaiHelpers)

DictKeyContent == << "c", "o", "n", "t", "e", "n", "t" >>

DictKeyText == << "t", "e", "x", "t" >>

DictKeyOutput == << "o", "u", "t", "p", "u", "t" >>

ResponseKeys == << DictKeyContent, DictKeyText, DictKeyOutput >>

\* the mapping branch shared by both loops (lines 71-75, 87-91):
\* the first present key among content, text, output, else json.dumps
FromDict(resp) ==
    LET present == {k \in 1..Len(ResponseKeys) : HasKey(resp.pairs, ResponseKeys[k])}
        dumped  == JsonDumps(resp)
    IN  IF present # {}
        THEN [done |-> TRUE,
              raw  |-> Lookup(resp.pairs, ResponseKeys[CHOOSE k \in present : \A j \in present : k <= j])]
        ELSE IF dumped.ok THEN [done |-> TRUE, raw |-> Str(dumped.s)]
        ELSE [done |-> FALSE, raw |-> None]

\* what one candidate's try block does with the response of a successful call:
\* done = TRUE and the returned value, or done = FALSE when the block falls
\* through (no shape matched) or an exception was swallowed.  with_content is
\* TRUE in the model-method loop, which alone looks at .content.
NormalizeResponse(resp, with_content) ==
    IF HasAttr(resp, "text")
    THEN IF GetAttr(resp, "text") = AttrRaises THEN [done |-> FALSE, raw |-> None]
         ELSE [done |-> TRUE, raw |-> GetAttr(resp, "text")]
    ELSE IF with_content /\ HasAttr(resp, "content")
    THEN IF GetAttr(resp, "content") = AttrRaises THEN [done |-> FALSE, raw |-> None]
         ELSE [done |-> TRUE, raw |-> GetAttr(resp, "content")]
    ELSE IF IsDict(resp) THEN FromDict(resp)
    ELSE IF IsStr(resp) THEN [done |-> TRUE, raw |-> resp]
    ELSE [done |-> FALSE, raw |-> None]

\* is candidate i looked at at all: the model-method loop runs only when
\* self.model is truthy
Probed(has_model, i) == i > Len(ModelMethods) \/ has_model

\* mutant: the loops go on after a candidate has given the result
RECURSIVE CallModelFromGoesOn(_, _, _)
CallModelFromGoesOn(has_model, cands, i) ==
    IF i > NumCandidates THEN [raw |-> Str(<< >>), called |-> << >>]
    ELSE IF ~Probed(has_model, i) \/ cands[i].out = "absent"
    THEN CallModelFromGoesOn(has_model, cands, i + 1)
    ELSE LET rest == CallModelFromGoesOn(has_model, cands, i + 1)
             norm == NormalizeResponse(cands[i].resp, i <= Len(ModelMethods))
         IN  IF cands[i].out = "return" /\ norm.done
             THEN [raw |-> norm.raw, called |-> << i >> \o rest.called]
             ELSE [raw |-> rest.raw, called |-> << i >> \o rest.called]

\* _call_model from candidate i on: the value returned and the candidates called
RECURSIVE CallModelFrom(_, _, _)
CallModelFrom(has_model, cands, i) ==
    IF i > NumCandidates THEN [raw |-> Str(<< >>), called |-> << >>]
    ELSE IF ~Probed(has_model, i) \/ cands[i].out = "absent"
    THEN CallModelFrom(has_model, cands, i + 1)
    ELSE LET rest == CallModelFrom(has_model, cands, i + 1)
             norm == NormalizeResponse(cands[i].resp, i <= Len(ModelMethods))
         IN  IF cands[i].out = "return" /\ norm.done
             THEN [raw |-> norm.raw, called |-> << i >>]
             ELSE [raw |-> rest.raw, called |-> << i >> \o rest.called]

\* self._call_model(prompt)
CallModel(has_model, cands) == CallModelFrom(has_model, cands, 1)

(***************************************************************************)
(* json.loads, for the JSON documents made of objects, arrays, strings     *)
(* (with the escapes \" \\ \/ \n \t), non-negative integers and            *)
(* true/false/null.  Every parser returns [ok, v, next]: next is the       *)
(* 1-based position after the value.                                       *)
(***************************************************************************)
PyInt(n) == [py |-> "int", n |-> n]

PyBool(b) == [py |-> "bool", b |-> b]

JsonFail == [ok |-> FALSE, v |-> None, next |-> 0]

\* the first position >= i that holds no JSON whitespace
RECURSIVE SkipWs(_, _)
SkipWs(s, i) ==
    IF i <= Len(s) /\ s[i] \in Whitespace THEN SkipWs(s, i + 1) ELSE i

\* d[k] = v on the pairs of a dict: a repeated key keeps its place and takes
\* the later value
DictSet(kvs, k, v) ==
    IF HasKey(kvs, k)
    THEN [i \in 1..Len(kvs) |-> IF kvs[i][1] = k THEN << k, v >> ELSE kvs[i]]
    ELSE Append(kvs, << k, v >>)

DigitValue(c) == (CHOOSE d \in 1..10 : Digits[d] = c) - 1

IsDigit(c) == \E d \in 1..10 : Digits[d] = c

\* the characters of a string from position i (after the opening quote) to
\* its closing quote; v is the decoded text as a sequence of characters
RECURSIVE ParseStringBody(_, _)
ParseStringBody(s, i) ==
    IF i > Len(s) THEN [ok |-> FALSE, v |-> << >>, next |-> 0]
    ELSE IF s[i] = "\"" THEN [ok |-> TRUE, v |-> << >>, next |-> i + 1]
    ELSE IF s[i] \in {"\n", "\t", "\r"} THEN [ok |-> FALSE, v |-> << >>, next |-> 0]
    ELSE IF s[i] = "\\"
    THEN IF i + 1 > Len(s) \/ s[i + 1] \notin {"\"", "\\", "/", "n", "t"}
         THEN [ok |-> FALSE, v |-> << >>, next |-> 0]
         ELSE Only({ [ok |-> rest.ok, v |-> << c >> \o rest.v, next |-> rest.next] :
                       c \in {CASE s[i + 1] = "n" -> "\n"
                                [] s[i + 1] = "t" -> "\t"
                                [] OTHER          -> s[i + 1]},
                       rest \in {ParseStringBody(s, i + 2)} })
    ELSE Only({ [ok |-> rest.ok, v |-> << s[i] >> \o rest.v, next |-> rest.next] :
                  rest \in {ParseStringBody(s, i + 1)} })

\* the digits from position i on, as a number continued from acc
RECURSIVE ParseDigits(_, _, _)
ParseDigits(s, i, acc) ==
    IF i <= Len(s) /\ IsDigit(s[i])
    THEN Only({ ParseDigits(s, i + 1, n) : n \in {acc * 10 + DigitValue(s[i])} })
    ELSE [ok |-> TRUE, v |-> PyInt(acc), next |-> i]

StartsAt(s, i, word) ==
    i + Len(word) - 1 <= Len(s) /\ SubSeq(s, i, i + Len(word) - 1) = word

RECURSIVE ParseValue(_, _)
RECURSIVE ParseItems(_, _, _)
RECURSIVE ParseMembers(_, _, _)

\* the items of an array after its first: "," value ... "]"; j is the position
\* of the next token
ParseItemsAt(s, j, acc) ==
    IF j > Len(s) THEN JsonFail
    ELSE IF s[j] = "]" THEN [ok |-> TRUE, v |-> PyList(acc), next |-> j + 1]
    ELSE IF s[j] # "," THEN JsonFail
    ELSE Only({ IF ~item.ok THEN JsonFail
                ELSE ParseItems(s, item.next, Append(acc, item.v)) :
                  item \in {ParseValue(s, SkipWs(s, j + 1))} })

ParseItems(s, i, acc) == Only({ ParseItemsAt(s, j, acc) : j \in {SkipWs(s, i)} })

\* the value of a member whose key was parsed: ":" value, c the position of
\* the next token after the key
ParseMemberValue(s, key, c) ==
    IF c > Len(s) \/ s[c] # ":"
    THEN [ok |-> FALSE, k |-> << >>, v |-> None, next |-> 0]
    ELSE Only({ IF ~val.ok THEN [ok |-> FALSE, k |-> << >>, v |-> None, next |-> 0]
                ELSE [ok |-> TRUE, k |-> key.v, v |-> val.v, next |-> val.next] :
                  val \in {ParseValue(s, SkipWs(s, c + 1))} })

\* one member of an object at position i: "key" : value
ParseMember(s, i) ==
    IF i > Len(s) \/ s[i] # "\"" THEN [ok |-> FALSE, k |-> << >>, v |-> None, next |-> 0]
    ELSE Only({ IF ~key.ok THEN [ok |-> FALSE, k |-> << >>, v |-> None, next |-> 0]
                ELSE Only({ ParseMemberValue(s, key, c) : c \in {SkipWs(s, key.next)} }) :
                  key \in {ParseStringBody(s, i + 1)} })

\* the members of an object after its first: "," member ... "}"; j is the
\* position of the next token
ParseMembersAt(s, j, acc) ==
    IF j > Len(s) THEN JsonFail
    ELSE IF s[j] = "}" THEN [ok |-> TRUE, v |-> PyDict(acc), next |-> j + 1]
    ELSE IF s[j] # "," THEN JsonFail
    ELSE Only({ IF ~m.ok THEN JsonFail
                ELSE ParseMembers(s, m.next, DictSet(acc, m.k, m.v)) :
                  m \in {ParseMember(s, SkipWs(s, j + 1))} })

ParseMembers(s, i, acc) == Only({ ParseMembersAt(s, j, acc) : j \in {SkipWs(s, i)} })

\* an array whose "[" is before position j, the position of its next token
ParseArrayAt(s, j) ==
    IF j <= Len(s) /\ s[j] = "]"
    THEN [ok |-> TRUE, v |-> PyList(<< >>), next |-> j + 1]
    ELSE Only({ IF ~item.ok THEN JsonFail
                ELSE ParseItems(s, item.next, << item.v >>) :
                  item \in {ParseValue(s, j)} })

\* an object whose "{" is before position j, the position of its next token
ParseObjectAt(s, j) ==
    IF j <= Len(s) /\ s[j] = "}"
    THEN [ok |-> TRUE, v |-> PyDict(<< >>), next |-> j + 1]
    ELSE Only({ IF ~m.ok THEN JsonFail
                ELSE ParseMembers(s, m.next, << << m.k, m.v >> >>) :
                  m \in {ParseMember(s, j)} })

ParseValue(s, i) ==
    IF i > Len(s) THEN JsonFail
    ELSE IF s[i] = "\""
    THEN Only({ IF str.ok THEN [ok |-> TRUE, v |-> Str(str.v), next |-> str.next]
                ELSE JsonFail :
                  str \in {ParseStringBody(s, i + 1)} })
    ELSE IF s[i] = "["
    THEN Only({ ParseArrayAt(s, j) : j \in {SkipWs(s, i + 1)} })
    ELSE IF s[i] = "{"
    THEN Only({ ParseObjectAt(s, j) : j \in {SkipWs(s, i + 1)} })
    ELSE IF StartsAt(s, i, << "t", "r", "u", "e" >>)
    THEN [ok |-> TRUE, v |-> PyBool(TRUE), next |-> i + 4]
    ELSE IF StartsAt(s, i, << "f", "a", "l", "s", "e" >>)
    THEN [ok |-> TRUE, v |-> PyBool(FALSE), next |-> i + 5]
    ELSE IF StartsAt(s, i, << "n", "u", "l", "l" >>)
    THEN [ok |-> TRUE, v |-> None, next |-> i + 4]
    ELSE IF s[i] = "0" THEN [ok |-> TRUE, v |-> PyInt(0), next |-> i + 1]
    ELSE IF IsDigit(s[i]) THEN ParseDigits(s, i, 0)
    ELSE JsonFail

\* json.loads(s): ok = FALSE stands for the JSONDecodeError
JsonLoadsOf(s, val) ==
    IF val.ok /\ SkipWs(s, val.next) = Len(s) + 1
    THEN [ok |-> TRUE, v |-> val.v]
    ELSE [ok |-> FALSE, v |-> None]

JsonLoads(s) ==
    Only({ Only({ JsonLoadsOf(doc, val) : val \in {ParseValue(doc, SkipWs(doc, 1))} }) :
             doc \in {s} })

(***************************************************************************)
(* GeminiTranscriptProcessor (src/models/gemini_transcript_processor.py)   *)
(***************************************************************************)
\* does the pattern \[(\d{2}:\d{2}:\d{2})\] match line at the 1-based position i
TimestampAt(line, i) ==
    /\ i + 9 <= Len(line)
    /\ line[i] = "[" /\ line[i + 9] = "]"
    /\ line[i + 3] = ":" /\ line[i + 6] = ":"
    /\ \A k \in {1, 2, 4, 5, 7, 8} : IsDigit(line[i + k])

\* re.search(r'\[(\d{2}:\d{2}:\d{2})\]', line): found, and group(1) of the
\* leftmost match
SearchTimestamp(line) ==
    LET at == {i \in 1..Len(line) : TimestampAt(line, i)}
        i0 == CHOOSE i \in at : \A j \in at : i <= j
    IN  IF at = {} THEN [found |-> FALSE, timestamp |-> << >>]
        ELSE [found |-> TRUE, timestamp |-> SubSeq(line, i0 + 1, i0 + 8)]

\* mutant: the speaker ends at the last colon of the line
ExtractLineLastColon(line) ==
    LET time_match     == SearchTimestamp(line)
        remaining_text == Strip(Slice(line, Find(line, << "]" >>) + 1, Len(line)))
        colon          == RFind(remaining_text, << ":" >>)
    IN  IF Strip(line) = << >> THEN << >>
        ELSE IF ~time_match.found THEN << >>
        ELSE IF ~Contains(remaining_text, << ":" >>) THEN << >>
        ELSE << [timestamp |-> time_match.timestamp,
                 speaker   |-> Strip(Slice(remaining_text, 0, colon)),
                 content   |-> Strip(Slice(remaining_text, colon + 1, Len(remaining_text)))] >>

\* the body of the loop of extract_messages for one line: the utterances it
\* appends (none or one)
ExtractLine(line) ==
    LET time_match     == SearchTimestamp(line)
        remaining_text == Strip(Slice(line, Find(line, << "]" >>) + 1, Len(line)))
        parts          == SplitOnce(remaining_text, << ":" >>)
    IN  IF Strip(line) = << >> THEN << >>
        ELSE IF ~time_match.found THEN << >>
        ELSE IF ~Contains(remaining_text, << ":" >>) THEN << >>
        ELSE << [timestamp |-> time_match.timestamp,
                 speaker   |-> Strip(parts[1]),
                 content   |-> Strip(parts[2])] >>

RECURSIVE ExtractLines(_)
ExtractLines(lines) ==
    IF lines = << >> THEN << >>
    ELSE ExtractLine(Head(lines)) \o ExtractLines(Tail(lines))

\* extract_messages(transcript)
extract_messages(transcript) == ExtractLines(Split(transcript, << "\n" >>))

\* the two digits of s at the 1-based position i, as a number
TwoDigits(s, i) == DigitValue(s[i]) * 10 + DigitValue(s[i + 1])

\* "time data '"
StrptimePrefix ==
    << "t", "i", "m", "e", " ", "d", "a", "t", "a", " ", "'" >>

\* "' does not match format '%H:%M:%S'"
StrptimeSuffix ==
    << "'", " ", "d", "o", "e", "s", " ", "n", "o", "t", " ", "m", "a", "t", "c", "h", " ",
       "f", "o", "r", "m", "a", "t", " ", "'", "%", "H", ":", "%", "M", ":", "%", "S", "'" >>

\* 'second must be in 0..59'
SecondRangeMsg ==
    << "s", "e", "c", "o", "n", "d", " ", "m", "u", "s", "t", " ", "b", "e", " ", "i", "n",
       " ", "0", ".", ".", "5", "9" >>

\* '0:00'
ZeroDuration ==
    << "0", ":", "0", "0" >>

\* '-1 day, '
MinusOneDay ==
    << "-", "1", " ", "d", "a", "y", ",", " " >>

SecondsPerDay == 86400

\* datetime.strptime(ts, "%H:%M:%S") of a timestamp dd:dd:dd: the second of the
\* day, or the ValueError and its message
Strptime(ts) ==
    LET h == TwoDigits(ts, 1)
        m == TwoDigits(ts, 4)
        s == TwoDigits(ts, 7)
    IN  IF h > 23 \/ m > 59 \/ s > 61
        THEN [raised |-> TRUE, err |-> StrptimePrefix \o ts \o StrptimeSuffix, t |-> 0]
        ELSE IF s > 59 THEN [raised |-> TRUE, err |-> SecondRangeMsg, t |-> 0]
        ELSE [raised |-> FALSE, err |-> << >>, t |-> h * 3600 + m * 60 + s]

\* two digits, zero-padded
Pad2(n) == IF n < 10 THEN << "0" >> \o NatToStr(n) ELSE NatToStr(n)

\* str(timedelta(seconds=d)) for -86400 < d < 86400: H:MM:SS, after
\* "-1 day, " for a negative difference
TimedeltaStr(d) ==
    LET secs == IF d < 0 THEN d + SecondsPerDay ELSE d
        hms  == NatToStr(secs \div 3600) \o << ":" >> \o Pad2((secs % 3600) \div 60)
                \o << ":" >> \o Pad2(secs % 60)
    IN  IF d < 0 THEN MinusOneDay \o hms ELSE hms

\* _calculate_duration(messages)
calculate_duration(messages) ==
    LET start == Strptime(messages[1].timestamp)
        end   == Strptime(messages[Len(messages)].timestamp)
    IN  IF messages = << >> THEN [raised |-> FALSE, err |-> << >>, v |-> ZeroDuration]
        ELSE IF start.raised THEN [raised |-> TRUE, err |-> start.err, v |-> << >>]
        ELSE IF end.raised THEN [raised |-> TRUE, err |-> end.err, v |-> << >>]
        ELSE [raised |-> FALSE, err |-> << >>, v |-> TimedeltaStr(end.t - start.t)]

(***************************************************************************)
(* The four extractors and the orchestration.  The model call              *)
(* self.model.generate_content(prompt) is the environment: it raises, or   *)
(* returns a response object.                                              *)
(***************************************************************************)
\* 'summary'
KeySummary ==
    << "s", "u", "m", "m", "a", "r", "y" >>

\* 'main_topics'
KeyMainTopics ==
    << "m", "a", "i", "n", "_", "t", "o", "p", "i", "c", "s" >>

\* 'key_points'
KeyKeyPoints ==
    << "k", "e", "y", "_", "p", "o", "i", "n", "t", "s" >>

\* 'model unavailable'
ModelErrorText ==
    << "m", "o", "d", "e", "l", " ", "u", "n", "a", "v", "a", "i", "l", "a", "b", "l", "e" >>

\* "object has no attribute 'text'"
NoTextAttrMsg ==
    << "o", "b", "j", "e", "c", "t", " ", "h", "a", "s", " ", "n", "o", " ", "a", "t", "t",
       "r", "i", "b", "u", "t", "e", " ", "'", "t", "e", "x", "t", "'" >>

\* evaluating response.text: the value, or the exception it raises
ResponseText(response) ==
    IF ~HasAttr(response, "text") THEN [raised |-> TRUE, err |-> NoTextAttrMsg, v |-> None]
    ELSE IF GetAttr(response, "text") = AttrRaises
    THEN [raised |-> TRUE, err |-> ModelErrorText, v |-> None]
    ELSE [raised |-> FALSE, err |-> << >>, v |-> GetAttr(response, "text")]

\* the try block shared by the extractors:
\* json.loads(text[text.find(open):text.rfind(close)+1]); ok = FALSE when
\* anything in it raises
ExtractJsonOf(text, open, close) ==
    IF text.raised \/ ~IsStr(text.v) THEN [ok |-> FALSE, v |-> None]
    ELSE JsonLoads(Slice(text.v.s, Find(text.v.s, << open >>),
                         RFind(text.v.s, << close >>) + 1))

ExtractJson(response, open, close) ==
    Only({ ExtractJsonOf(text, open, close) : text \in {ResponseText(response)} })

\* generate_summary, given what the model call did
SummaryOf(parsed, text) ==
    IF parsed.ok THEN [raised |-> FALSE, err |-> << >>, v |-> parsed.v]
    ELSE IF text.raised THEN [raised |-> TRUE, err |-> text.err, v |-> None]
    ELSE [raised |-> FALSE, err |-> << >>,
          v |-> PyDict(<< << KeySummary, text.v >>,
                          << KeyMainTopics, PyList(<< >>) >>,
                          << KeyKeyPoints, PyList(<< >>) >> >>)]

generate_summary(call) ==
    IF call.out = "raise" THEN [raised |-> TRUE, err |-> ModelErrorText, v |-> None]
    ELSE Only({ SummaryOf(parsed, text) : parsed \in {ExtractJson(call.resp, "{", "}")},
                                          text \in {ResponseText(call.resp)} })

\* extract_action_items, extract_meeting_requests and extract_key_decisions
\* share one body
extract_array(call) ==
    IF call.out = "raise" THEN [raised |-> TRUE, err |-> ModelErrorText, v |-> None]
    ELSE Only({ IF parsed.ok THEN [raised |-> FALSE, err |-> << >>, v |-> parsed.v]
                ELSE [raised |-> FALSE, err |-> << >>, v |-> PyList(<< >>)] :
                  parsed \in {ExtractJson(call.resp, "[", "]")} })

extract_action_items(call) == extract_array(call)

extract_meeting_requests(call) == extract_array(call)

extract_key_decisions(call) == extract_array(call)

\* the value of analysis when no analysis is returned
NoAnalysis == [summary |-> None, action_items |-> None, meeting_requests |-> None,
               key_decisions |-> None, participants |-> {}, duration |-> << >>]

\* GeminiTranscriptProcessor.process_transcript(transcript); calls[1..4] are what
\* the four model calls do.  participants is list(set(...)), whose order Python
\* leaves open: it is kept as the set.
Analysis(messages, summary, action_items, meeting_requests, key_decisions, duration) ==
    LET Raise(e) == [raised |-> TRUE, err |-> e, analysis |-> NoAnalysis]
    IN  IF summary.raised THEN Raise(summary.err)
        ELSE IF action_items.raised THEN Raise(action_items.err)
        ELSE IF meeting_requests.raised THEN Raise(meeting_requests.err)
        ELSE IF key_decisions.raised THEN Raise(key_decisions.err)
        ELSE IF duration.raised THEN Raise(duration.err)
        ELSE [raised   |-> FALSE,
              err      |-> << >>,
              analysis |-> [summary          |-> summary.v,
                            action_items     |-> action_items.v,
                            meeting_requests |-> meeting_requests.v,
                            key_decisions    |-> key_decisions.v,
                            participants     |-> {messages[i].speaker : i \in 1..Len(messages)},
                            duration         |-> duration.v]]

ProcessorProcessTranscript(transcript, calls) ==
    Only({ Only({ Analysis(messages, summary, action_items, meeting_requests,
                           key_decisions, duration) :
                    summary          \in {generate_summary(calls[1])},
                    action_items     \in {extract_action_items(calls[2])},
                    meeting_requests \in {extract_meeting_requests(calls[3])},
                    key_decisions    \in {extract_key_decisions(calls[4])},
                    duration         \in {calculate_duration(messages)} }) :
             messages \in {extract_messages(transcript)} })

(***************************************************************************)
(* ChatHandler (src/utils/chat_handler.py): the session state              *)
(***************************************************************************)
VARIABLES
    messages,            \* self.messages: the history, a sequence of [role, content]
    current_transcript,  \* self.current_transcript: None or Str(text)
    current_analysis,    \* self.current_analysis: None or the analysis record
    notion,              \* is self.notion set (a NotionIntegration was passed in)
    model,               \* is self.model set (GenerativeModel(MODEL_NAME) succeeded)
    request              \* what the last request did: its inputs, result and calls

vars == << messages, current_transcript, current_analysis, notion, model, request >>

\* {"role": role, "content": content}
Message(role, content) == [role |-> role, content |-> content]

\* mutant: the new message is put in front of the history
AddMessageInFront(msgs, content, role) == << Message(role, content) >> \o msgs

\* add_message(content, role)
add_message(msgs, content, role) == Append(msgs, Message(role, content))

\* any(trigger in text for trigger in notion_triggers)
NotionIntent(text) ==
    \E i \in 1..Len(notion_triggers) : Contains(text, notion_triggers[i])

\* the loop over ("titled", "title") of lines 143-150: None when no title is
\* taken from the message
ExtractTitle(text) ==
    LET Rest(sep)  == SplitOnce(text, sep)[2]
        Taken(sep) == Contains(text, sep) /\ Strip(Rest(sep)) # << >>
        Title(sep) == Str(StripChars(Strip(Rest(sep)), {" ", "\"", "'"}))
    IN  IF ~(Contains(text, SepTitle) \/ Contains(text, SepTitled)) THEN None
        ELSE IF Taken(SepTitled) THEN Title(SepTitled)
        ELSE IF Taken(SepTitle) THEN Title(SepTitle)
        ELSE None

\* the fallback title of line 153
FallbackTitle(transcript) ==
    AutoTitlePrefix
    \o (IF Truthy(transcript) THEN SplitLines(Slice(transcript.s, 0, 30))[1] ELSE Untitled)
    \o << ")" >>

\* the title create_meeting_page is called with: the title taken from the
\* message unless it is None or empty (line 152)
PageTitle(title, transcript) ==
    IF Truthy(title) THEN title.s ELSE FallbackTitle(transcript)

\* str(v) of a value that is no mapping (line 160); generate_summary returns
\* mappings only, so no run takes this branch with a list or an object
PyStrOf(v) ==
    CASE v.py = "str"  -> v
      [] v.py = "None" -> Str(<< "N", "o", "n", "e" >>)
      [] OTHER         -> Str(JsonDumps(v).s)

\* summary_text of lines 156-160
SummaryText(analysis) ==
    IF IsDict(analysis.summary)
    THEN DictGet(analysis.summary, KeySummary, Str(<< >>))
    ELSE PyStrOf(analysis.summary)

\* settings.NOTION_DATABASE_ID, a required setting (src/utils/config.py:16)
NOTION_DATABASE_ID == Str(<< "d", "b", "1" >>)

\* the topical intent of lines 193-208: the first keyword group, in the order
\* of the if/elif chain, with a keyword in the lower-cased message
AnyKeyword(user_lower, keywords) ==
    \E i \in 1..Len(keywords) : Contains(user_lower, keywords[i])

\* mutant: the task branch of the if/elif chain comes before the scheduling one
TopicalIntentTaskFirst(user_lower) ==
    IF AnyKeyword(user_lower, TaskKeywords) THEN "task"
    ELSE IF AnyKeyword(user_lower, SchedulingKeywords) THEN "scheduling"
    ELSE IF AnyKeyword(user_lower, DecisionKeywords) THEN "decision"
    ELSE "default"

TopicalIntent(user_lower) ==
    IF AnyKeyword(user_lower, SchedulingKeywords) THEN "scheduling"
    ELSE IF AnyKeyword(user_lower, TaskKeywords) THEN "task"
    ELSE IF AnyKeyword(user_lower, DecisionKeywords) THEN "decision"
    ELSE "default"

\* the prompt of lines 194-216, kept as its parts: the intent that chose the
\* template, the analysis fields serialized into it and the user's message
BuildPrompt(intent, analysis, user_message) ==
    [intent |-> intent,
     fields |-> CASE intent = "scheduling" -> << "meeting_requests" >>
                  [] intent = "task"       -> << "action_items" >>
                  [] intent = "decision"   -> << "key_decisions" >>
                  [] OTHER -> << "summary", "action_items", "meeting_requests", "key_decisions" >>,
     data   |-> CASE intent = "scheduling" -> << analysis.meeting_requests >>
                  [] intent = "task"       -> << analysis.action_items >>
                  [] intent = "decision"   -> << analysis.key_decisions >>
                  [] OTHER -> << analysis.summary, analysis.action_items,
                                 analysis.meeting_requests, analysis.key_decisions >>,
     user   |-> user_message]

\* the result of get_response: did it raise, the reply it returned, the messages
\* it appended itself, and the calls it made to _call_model and to
\* create_meeting_page
Outcome(raised, reply, appended, model_calls, notion_calls) ==
    [raised |-> raised, reply |-> reply, appended |-> appended,
     model_calls |-> model_calls, notion_calls |-> notion_calls]

\* what get_response computes from the message alone: the text the triggers are
\* looked up in, whether one is found, the title taken from it and the topical
\* intent
ScanMessage(user_message) ==
    LET text == Strip(Lower(user_message))
    IN  [text          |-> text,
         notion_intent |-> NotionIntent(text),
         title         |-> ExtractTitle(text),
         intent        |-> TopicalIntent(Lower(user_message))]

\* mutant: the Notion branch without the test of self.notion
NotionBranchUnchecked(scan, analysis, transcript, has_notion, page) ==
    LET call == [title        |-> PageTitle(scan.title, transcript),
                 summary      |-> SummaryText(analysis),
                 action_items |-> analysis.action_items,
                 parent_id    |-> NOTION_DATABASE_ID,
                 parent_type  |-> IF Truthy(NOTION_DATABASE_ID) THEN "database" ELSE "page"]
        text == (IF page.raised THEN FailedNotionPrefix ELSE SavedToNotionPrefix) \o page.v
    IN  Outcome(FALSE, text, << Message("assistant", text) >>, << >>, << call >>)

\* mutant: a failed create_meeting_page is tried a second time
NotionBranchRetries(scan, analysis, transcript, has_notion, page) ==
    LET call == [title        |-> PageTitle(scan.title, transcript),
                 summary      |-> SummaryText(analysis),
                 action_items |-> analysis.action_items,
                 parent_id    |-> NOTION_DATABASE_ID,
                 parent_type  |-> IF Truthy(NOTION_DATABASE_ID) THEN "database" ELSE "page"]
        confirmation == SavedToNotionPrefix \o page.v
        err          == FailedNotionPrefix \o page.v
    IN  IF ~has_notion
        THEN Outcome(FALSE, NotionNotConfiguredMsg, << >>, << >>, << >>)
        ELSE IF ~page.raised
        THEN Outcome(FALSE, confirmation, << Message("assistant", confirmation) >>,
                     << >>, << call >>)
        ELSE Outcome(FALSE, err, << Message("assistant", err) >>, << >>, << call, call >>)

\* mutant: the Notion branch without its except clause
NotionBranchPropagates(scan, analysis, transcript, has_notion, page) ==
    LET call == [title        |-> PageTitle(scan.title, transcript),
                 summary      |-> SummaryText(analysis),
                 action_items |-> analysis.action_items,
                 parent_id    |-> NOTION_DATABASE_ID,
                 parent_type  |-> IF Truthy(NOTION_DATABASE_ID) THEN "database" ELSE "page"]
        confirmation == SavedToNotionPrefix \o page.v
    IN  IF ~has_notion
        THEN Outcome(FALSE, NotionNotConfiguredMsg, << >>, << >>, << >>)
        ELSE IF ~page.raised
        THEN Outcome(FALSE, confirmation, << Message("assistant", confirmation) >>,
                     << >>, << call >>)
        ELSE Outcome(TRUE, << >>, << >>, << >>, << call >>)

\* the Notion branch of get_response (lines 136-181); page is what
\* create_meeting_page does: [raised, v] with the page id or the error text
NotionBranch(scan, analysis, transcript, has_notion, page) ==
    LET call == [title        |-> PageTitle(scan.title, transcript),
                 summary      |-> SummaryText(analysis),
                 action_items |-> analysis.action_items,
                 parent_id    |-> NOTION_DATABASE_ID,
                 parent_type  |-> IF Truthy(NOTION_DATABASE_ID) THEN "database" ELSE "page"]
        confirmation == SavedToNotionPrefix \o page.v
        err          == FailedNotionPrefix \o page.v
    IN  IF ~has_notion
        THEN Outcome(FALSE, NotionNotConfiguredMsg, << >>, << >>, << >>)
        ELSE IF ~page.raised
        THEN Outcome(FALSE, confirmation, << Message("assistant", confirmation) >>,
                     << >>, << call >>)
        ELSE Outcome(FALSE, err, << Message("assistant", err) >>, << >>, << call >>)

\* mutant: the conversational branch without the test of an empty reply
TopicalBranchNoFallback(scan, user_message, analysis, result) ==
    LET prompt == BuildPrompt(scan.intent, analysis, user_message)
        raw    == result.raw
        calls  == << [prompt |-> prompt, called |-> result.called, raw |-> raw] >>
    IN  IF ~IsStr(raw) THEN Outcome(TRUE, << >>, << >>, calls, << >>)
        ELSE Outcome(FALSE, Strip(raw.s), << Message("assistant", Strip(raw.s)) >>,
                     calls, << >>)

\* the conversational branch of get_response (lines 184-223); result is what
\* self._call_model(prompt) returned and the candidates it called
TopicalBranch(scan, user_message, analysis, result) ==
    LET prompt == BuildPrompt(scan.intent, analysis, user_message)
        raw    == result.raw
        calls  == << [prompt |-> prompt, called |-> result.called, raw |-> raw] >>
    IN  IF ~Truthy(raw) THEN Outcome(FALSE, NoResponseMsg, << >>, calls, << >>)
        ELSE IF ~IsStr(raw) THEN Outcome(TRUE, << >>, << >>, calls, << >>)
        ELSE Outcome(FALSE, Strip(raw.s), << Message("assistant", Strip(raw.s)) >>,
                     calls, << >>)

\* mutant: the test for a stored analysis comes after the test of self.notion
GetResponseGuardLate(scan, user_message, analysis, transcript, has_notion, page, result) ==
    IF scan.notion_intent /\ ~has_notion
    THEN Outcome(FALSE, NotionNotConfiguredMsg, << >>, << >>, << >>)
    ELSE IF analysis = None
    THEN Outcome(FALSE, NeedTranscriptMsg, << >>, << >>, << >>)
    ELSE IF scan.notion_intent
    THEN NotionBranch(scan, analysis, transcript, has_notion, page)
    ELSE TopicalBranch(scan, user_message, analysis, result)

\* mutant: the topical keywords are looked at before the Notion triggers
GetResponseTopicalFirst(scan, user_message, analysis, transcript, has_notion, page, result) ==
    IF analysis = None
    THEN Outcome(FALSE, NeedTranscriptMsg, << >>, << >>, << >>)
    ELSE IF scan.intent # "default" \/ ~scan.notion_intent
    THEN TopicalBranch(scan, user_message, analysis, result)
    ELSE NotionBranch(scan, analysis, transcript, has_notion, page)

\* await get_response(user_message); scan is ScanMessage(user_message)
GetResponse(scan, user_message, analysis, transcript, has_notion, page, result) ==
    IF analysis = None
    THEN Outcome(FALSE, NeedTranscriptMsg, << >>, << >>, << >>)
    ELSE IF scan.notion_intent
    THEN NotionBranch(scan, analysis, transcript, has_notion, page)
    ELSE TopicalBranch(scan, user_message, analysis, result)

EmptyDict == PyDict(<< >>)

\* mutant: the except clause of process_transcript drops the stored analysis
ChatProcessTranscriptResets(msgs, analysis, transcript_text, result) ==
    IF ~result.raised
    THEN [messages           |-> add_message(msgs, TranscriptProcessedMsg, "assistant"),
          current_transcript |-> Str(transcript_text),
          current_analysis   |-> result.analysis,
          raised             |-> FALSE,
          returned           |-> result.analysis]
    ELSE [messages           |-> add_message(msgs, ErrorProcessingPrefix \o result.err,
                                             "assistant"),
          current_transcript |-> Str(transcript_text),
          current_analysis   |-> None,
          raised             |-> FALSE,
          returned           |-> EmptyDict]

\* mutant: process_transcript without its except clause
ChatProcessTranscriptUncaught(msgs, analysis, transcript_text, result) ==
    IF ~result.raised
    THEN [messages           |-> add_message(msgs, TranscriptProcessedMsg, "assistant"),
          current_transcript |-> Str(transcript_text),
          current_analysis   |-> result.analysis,
          raised             |-> FALSE,
          returned           |-> result.analysis]
    ELSE [messages           |-> msgs,
          current_transcript |-> Str(transcript_text),
          current_analysis   |-> analysis,
          raised             |-> TRUE,
          returned           |-> None]

\* ChatHandler.process_transcript(transcript_text) (lines 98-112), as the new
\* values of the fields, whether an exception left the call and what the call
\* returned; result is what
\* self.transcript_processor.process_transcript(transcript_text) did
ChatProcessTranscript(msgs, analysis, transcript_text, result) ==
    IF ~result.raised
    THEN [messages           |-> add_message(msgs, TranscriptProcessedMsg, "assistant"),
          current_transcript |-> Str(transcript_text),
          current_analysis   |-> result.analysis,
          raised             |-> FALSE,
          returned           |-> result.analysis]
    ELSE [messages           |-> add_message(msgs, ErrorProcessingPrefix \o result.err,
                                             "assistant"),
          current_transcript |-> Str(transcript_text),
          current_analysis   |-> analysis,
          raised             |-> FALSE,
          returned           |-> EmptyDict]

\* the history after the chat endpoint (src/api/main.py:63-69) has run
\* get_response with outcome out: the user's message, what get_response
\* appended itself and, unless it raised, the reply
ChatTurn(msgs, message, out) ==
    add_message(msgs, message, "user") \o out.appended
    \o (IF out.raised THEN << >> ELSE << Message("assistant", out.reply) >>)

(***************************************************************************)
(* The inputs: user messages, transcripts and what the collaborators do    *)
(***************************************************************************)
\* 'Please save to notion, titled Weekly Sync'
MsgSaveTitled ==
    << "P", "l", "e", "a", "s", "e", " ", "s", "a", "v", "e", " ", "t", "o", " ", "n", "o",
       "t", "i", "o", "n", ",", " ", "t", "i", "t", "l", "e", "d", " ", "W", "e", "e", "k",
       "l", "y", " ", "S", "y", "n", "c" >>

\* 'save meeting to notion'
MsgSaveMeeting ==
    << "s", "a", "v", "e", " ", "m", "e", "e", "t", "i", "n", "g", " ", "t", "o", " ", "n",
       "o", "t", "i", "o", "n" >>

\* 'When is the next task due?'
MsgWhenTask ==
    << "W", "h", "e", "n", " ", "i", "s", " ", "t", "h", "e", " ", "n", "e", "x", "t", " ",
       "t", "a", "s", "k", " ", "d", "u", "e", "?" >>

\* 'what action was agreed'
MsgActionAgreed ==
    << "w", "h", "a", "t", " ", "a", "c", "t", "i", "o", "n", " ", "w", "a", "s", " ", "a",
       "g", "r", "e", "e", "d" >>

\* 'What was the conclusion?'
MsgConclusion ==
    << "W", "h", "a", "t", " ", "w", "a", "s", " ", "t", "h", "e", " ", "c", "o", "n", "c",
       "l", "u", "s", "i", "o", "n", "?" >>

\* 'put this in notion'
MsgPutInNotion ==
    << "p", "u", "t", " ", "t", "h", "i", "s", " ", "i", "n", " ", "n", "o", "t", "i", "o", "n" >>

\* the messages users send; the last one is 'save to notion titled'
UserMessages ==
    {MsgSaveTitled, MsgSaveMeeting,
     MsgWhenTask, MsgActionAgreed, MsgConclusion, MsgPutInNotion,
     << "s", "a", "v", "e", " ", "t", "o", " ", "n", "o", "t", "i", "o", "n", " ", "t", "i",
        "t", "l", "e", "d" >>}

\* "[00:00:00] John: Let's start.\n[00:00:45] Mike: ok"
TranscriptTwoLines ==
    << "[", "0", "0", ":", "0", "0", ":", "0", "0", "]", " ", "J", "o", "h", "n", ":", " ",
       "L", "e", "t", "'", "s", " ", "s", "t", "a", "r", "t", ".", "\n", "[", "0", "0", ":",
       "0", "0", ":", "4", "5", "]", " ", "M", "i", "k", "e", ":", " ", "o", "k" >>

\* '[00:00:00] A: hi\n[00:00:60] B: bye'
TranscriptBadSecond ==
    << "[", "0", "0", ":", "0", "0", ":", "0", "0", "]", " ", "A", ":", " ", "h", "i", "\n",
       "[", "0", "0", ":", "0", "0", ":", "6", "0", "]", " ", "B", ":", " ", "b", "y", "e" >>

Transcripts == {TranscriptTwoLines, TranscriptBadSecond}

\* 'Here: {"summary": "Kickoff", "main_topics": [], "key_points": []} ok'
TextSummaryJson ==
    << "H", "e", "r", "e", ":", " ", "{", "\"", "s", "u", "m", "m", "a", "r", "y", "\"", ":",
       " ", "\"", "K", "i", "c", "k", "o", "f", "f", "\"", ",", " ", "\"", "m", "a", "i", "n",
       "_", "t", "o", "p", "i", "c", "s", "\"", ":", " ", "[", "]", ",", " ", "\"", "k", "e",
       "y", "_", "p", "o", "i", "n", "t", "s", "\"", ":", " ", "[", "]", "}", " ", "o", "k" >>

\* 'Sure [{"task": "doc", "assignee": "Mike"}] done'
TextArrayJson ==
    << "S", "u", "r", "e", " ", "[", "{", "\"", "t", "a", "s", "k", "\"", ":", " ", "\"", "d",
       "o", "c", "\"", ",", " ", "\"", "a", "s", "s", "i", "g", "n", "e", "e", "\"", ":", " ",
       "\"", "M", "i", "k", "e", "\"", "}", "]", " ", "d", "o", "n", "e" >>

\* 'no json here ] ['
TextProse ==
    << "n", "o", " ", "j", "s", "o", "n", " ", "h", "e", "r", "e", " ", "]", " ", "[" >>

\* ' Sure. \n'
TextReply ==
    << " ", "S", "u", "r", "e", ".", " ", "\n" >>

\* 'p1'
PageId ==
    << "p", "1" >>

\* 'API error'
NotionErrorText ==
    << "A", "P", "I", " ", "e", "r", "r", "o", "r" >>

\* a response object whose .text is the given text
TextResponse(text) == PyObject(<< << "text", Str(text) >> >>)

\* what the four model calls of one orchestration do
ModelCallScenarios ==
    { << Returns(TextResponse(TextSummaryJson)), Returns(TextResponse(TextArrayJson)),
         Returns(TextResponse(TextArrayJson)), Returns(TextResponse(TextArrayJson)) >>,
      << Returns(TextResponse(<< >>)), Returns(TextResponse(<< >>)),
         Returns(TextResponse(<< >>)), Returns(TextResponse(<< >>)) >>,
      << Returns(TextResponse(TextProse)), Returns(TextResponse(TextProse)),
         Returns(TextResponse(TextProse)), Returns(TextResponse(TextProse)) >>,
      << Returns(TextResponse(TextSummaryJson)), Returns(TextResponse(TextArrayJson)),
         Raises, Returns(TextResponse(TextArrayJson)) >> }

\* what the seven candidate calls of _call_model do
AdapterScenarios ==
    { << Returns(TextResponse(TextReply)), Absent, Absent, Absent, Absent, Absent, Absent >>,
      << Raises, Absent, Absent, Absent, Raises, Absent, Absent >>,
      << Raises, Absent, Absent, Absent,
         Returns(PyDict(<< << DictKeyOutput, PyList(<< Str(TextReply) >>) >> >>)),
         Absent, Absent >> }

\* what notion.create_meeting_page does: the page id, or an exception
PageResults ==
    { [raised |-> FALSE, v |-> PageId], [raised |-> TRUE, v |-> NotionErrorText] }

\* the longest history a run builds
MaxMessages == 4

\* The pure parts of a request, computed once for each input
Scanned == [m \in UserMessages |-> ScanMessage(m)]

Orchestrated ==
    [t \in Transcripts, calls \in ModelCallScenarios |-> ProcessorProcessTranscript(t, calls)]

Adapted == [has_model \in BOOLEAN, cands \in AdapterScenarios |-> CallModel(has_model, cands)]

(***************************************************************************)
(* The HTTP endpoints (src/api/main.py).  A response is its status code,   *)
(* its Location header, its media type and, for a JSON object body, the    *)
(* keys of the object.                                                     *)
(***************************************************************************)
Response(status, location, media, keys) ==
    [status |-> status, location |-> location, media |-> media, keys |-> keys]

\* no response: the operation was not an HTTP request
NoResponse == Response(0, "", "", {})

\* RedirectResponse(url="/", status_code=303)
RedirectResponse == Response(303, "/", "", {})

\* what the client receives for an exception the endpoint lets through, and
\* for HTTPException(status_code=500, detail=str(e)): FastAPI answers the
\* latter with the JSON object {"detail": ...}
InternalServerError == Response(500, "", "text/plain", {})

HTTPException == Response(500, "", "application/json", {"detail"})

\* GET / (lines 50-60): the chat page rendered from the history and from
\* has_transcript
root(msgs, analysis) ==
    [response |-> Response(200, "", "text/html", {}),
     context  |-> [messages |-> msgs, has_transcript |-> analysis # None]]

\* the condition of line 88: the analysis returned has meeting requests and
\* settings.GOOGLE_CLIENT_ID is set
AttachesSuggestedTimes(analysis, google_client_id) ==
    /\ analysis # EmptyDict
    /\ Truthy(analysis.meeting_requests)
    /\ google_client_id

\* POST /process-transcript (lines 72-101) after chat_handler.process_transcript
\* has ended with result: an exception it raised, or the analysis it returned.
\* The loop of lines 89-95 raises in its first round,
\* before line 95 assigns: a meeting request that is no JSON object has no
\* .get, and suggest_meeting_times calls target_date.replace(hour=...), which
\* no value parsed from JSON accepts (proposed_time is a string, a number,
\* null, a list or an object), when authenticate() has not raised before.
\* The except clause of line 100 turns the exception into the 500 response.
ProcessTranscriptResponse(result, google_client_id) ==
    IF result.raised THEN HTTPException
    ELSE IF AttachesSuggestedTimes(result.returned, google_client_id) THEN HTTPException
    ELSE RedirectResponse

\* mutant: suggest_meeting_times returns (no free slot) and line 95 assigns
StoredAnalysisAttached(result, google_client_id) ==
    IF ~result.raised /\ AttachesSuggestedTimes(result.returned, google_client_id)
    THEN [result.current_analysis EXCEPT !.meeting_requests =
              PyList([i \in 1..Len(@.items) |->
                         IF IsDict(@.items[i])
                         THEN PyDict(DictSet(@.items[i].pairs,
                                             << "s", "u", "g", "g", "e", "s", "t", "e", "d",
                                                "_", "t", "i", "m", "e", "s" >>,
                                             PyList(<< >>)))
                         ELSE @.items[i]])]
    ELSE result.current_analysis

\* the analysis the session holds when POST /process-transcript has answered:
\* the one chat_handler.process_transcript left, since the loop of lines 89-95
\* raises before the assignment of line 95 to the meeting request, which is an
\* entry of the stored analysis itself
StoredAnalysis(result, google_client_id) == result.current_analysis

\* POST /create-notion-page (lines 104-140) with the JSON object content; page
\* is what create_meeting_page does.  The title, summary and action items are
\* content.get(...) with the defaults "Meeting Notes", "" and [].
create_notion_page(content, has_notion, page) ==
    LET call == [title        |-> DictGet(content, SepTitle,
                                          Str(<< "M", "e", "e", "t", "i", "n", "g", " ",
                                                 "N", "o", "t", "e", "s" >>)),
                 summary      |-> DictGet(content, KeySummary, Str(<< >>)),
                 action_items |-> DictGet(content, << "a", "c", "t", "i", "o", "n", "_",
                                                      "i", "t", "e", "m", "s" >>,
                                          PyList(<< >>)),
                 parent_id    |-> NOTION_DATABASE_ID,
                 parent_type  |-> IF Truthy(NOTION_DATABASE_ID) THEN "database" ELSE "page"]
    IN  IF ~has_notion THEN [response |-> HTTPException, notion_calls |-> << >>]
        ELSE IF page.raised THEN [response |-> HTTPException, notion_calls |-> << call >>]
        ELSE [response     |-> Response(200, "", "application/json", {"message", "page_id"}),
              notion_calls |-> << call >>]

(***************************************************************************)
(* The state machine                                                       *)
(***************************************************************************)
\* The record of a request: op and input name it; raised says an exception left
\* it; failed and error say the orchestration raised inside it, and with what;
\* reply and returned are its result; before is the length of the history when
\* it began; model_calls and notion_calls are its calls to _call_model and to
\* create_meeting_page; response is what the endpoint answers.
NoRequest ==
    [op |-> "init", input |-> << >>, raised |-> FALSE, failed |-> FALSE, error |-> << >>,
     reply |-> << >>, returned |-> None, before |-> 0,
     model_calls |-> << >>, notion_calls |-> << >>, response |-> NoResponse]

\* 'Transcript loaded and processed.'
LoadedMsg ==
    << "T", "r", "a", "n", "s", "c", "r", "i", "p", "t", " ", "l", "o", "a", "d", "e", "d",
       " ", "a", "n", "d", " ", "p", "r", "o", "c", "e", "s", "s", "e", "d", "." >>

\* 'Ready. Failed to auto-load sample transcript.'
FailedLoadMsg ==
    << "R", "e", "a", "d", "y", ".", " ", "F", "a", "i", "l", "e", "d", " ", "t", "o", " ",
       "a", "u", "t", "o", "-", "l", "o", "a", "d", " ", "s", "a", "m", "p", "l", "e", " ",
       "t", "r", "a", "n", "s", "c", "r", "i", "p", "t", "." >>

\* what os.path.exists(sample_path) and the read of the file give: no file, a
\* file whose read raises, or the text of the file
SampleFiles ==
    { [file |-> "absent", text |-> << >>], [file |-> "unreadable", text |-> << >>],
      [file |-> "read", text |-> TranscriptTwoLines] }

\* the session ChatHandler.__init__ (lines 14-51) builds, given the sample file
\* and what the model calls of its process_transcript do
NewSession(sample, calls) ==
    IF sample.file = "absent"
    THEN [messages           |-> add_message(<< >>, ReadyMsg, "assistant"),
          current_transcript |-> None,
          current_analysis   |-> None]
    ELSE IF sample.file = "unreadable"
    THEN [messages           |-> add_message(<< >>, FailedLoadMsg, "assistant"),
          current_transcript |-> None,
          current_analysis   |-> None]
    ELSE Only({ [messages           |-> add_message(r.messages, LoadedMsg, "assistant"),
                 current_transcript |-> r.current_transcript,
                 current_analysis   |-> r.current_analysis] :
                  r \in {ChatProcessTranscript(<< >>, None, sample.text,
                                               Orchestrated[sample.text, calls])} })

NewSessions == {NewSession(sample, calls) : sample \in SampleFiles, calls \in ModelCallScenarios}

\* ChatHandler.__init__ (lines 14-51); self.notion is the argument, self.model
\* is set when genai.GenerativeModel(MODEL_NAME) does not raise
Init ==
    /\ \E s \in NewSessions :
        /\ messages = s.messages
        /\ current_transcript = s.current_transcript
        /\ current_analysis = s.current_analysis
    /\ notion \in BOOLEAN
    /\ model \in BOOLEAN
    /\ request = NoRequest

\* POST /process-transcript (src/api/main.py:72-101): the transcript uploaded,
\* what the four model calls do, and whether the settings handed to the
\* request hold a GOOGLE_CLIENT_ID
ProcessTranscript ==
    /\ Len(messages) < MaxMessages
    /\ \E t \in Transcripts, calls \in ModelCallScenarios, google_client_id \in BOOLEAN :
        \E o \in {Orchestrated[t, calls]} :
        \E r \in {ChatProcessTranscript(messages, current_analysis, t, o)} :
            /\ Len(r.messages) <= MaxMessages
            /\ messages' = r.messages
            /\ current_transcript' = r.current_transcript
            /\ current_analysis' = StoredAnalysis(r, google_client_id)
            /\ request' = [NoRequest EXCEPT !.op = "process_transcript", !.input = t,
                                            !.raised = r.raised,
                                            !.failed = o.raised,
                                            !.error = o.err,
                                            !.returned = r.returned,
                                            !.before = Len(messages),
                                            !.response =
                                                ProcessTranscriptResponse(r, google_client_id)]
            /\ UNCHANGED << notion, model >>

\* mutant: the chat endpoint stores the message as the transcript
ChatStoresMessage ==
    /\ Len(messages) < MaxMessages
    /\ \E m \in UserMessages, page \in PageResults, cands \in AdapterScenarios :
        \E out \in {GetResponse(Scanned[m], m, current_analysis, current_transcript, notion,
                                 page, Adapted[model, cands])} :
        \E turn \in {ChatTurn(messages, m, out)} :
            /\ Len(turn) <= MaxMessages
            /\ messages' = turn
            /\ request' = [NoRequest EXCEPT !.op = "chat", !.input = m,
                                            !.raised = out.raised, !.reply = out.reply,
                                            !.before = Len(messages),
                                            !.model_calls = out.model_calls,
                                            !.notion_calls = out.notion_calls,
                                            !.response = IF out.raised
                                                         THEN InternalServerError
                                                         ELSE RedirectResponse]
            /\ current_transcript' = Str(m)
            /\ UNCHANGED << current_analysis, notion, model >>

\* POST /chat (src/api/main.py:63-69)
Chat ==
    /\ Len(messages) < MaxMessages
    /\ \E m \in UserMessages, page \in PageResults, cands \in AdapterScenarios :
        \E out \in {GetResponse(Scanned[m], m, current_analysis, current_transcript, notion,
                                 page, Adapted[model, cands])} :
        \E turn \in {ChatTurn(messages, m, out)} :
            /\ Len(turn) <= MaxMessages
            /\ messages' = turn
            /\ request' = [NoRequest EXCEPT !.op = "chat", !.input = m,
                                            !.raised = out.raised, !.reply = out.reply,
                                            !.before = Len(messages),
                                            !.model_calls = out.model_calls,
                                            !.notion_calls = out.notion_calls,
                                            !.response = IF out.raised
                                                         THEN InternalServerError
                                                         ELSE RedirectResponse]
            /\ UNCHANGED << current_transcript, current_analysis, notion, model >>

\* POST /create-notion-page (src/api/main.py:104-140) with the payload
\* {"title": "p1"}
CreateNotionPage ==
    /\ \E content \in {PyDict(<< << SepTitle, Str(PageId) >> >>)}, page \in PageResults :
        \E r \in {create_notion_page(content, notion, page)} :
            request' = [NoRequest EXCEPT !.op = "create_notion_page", !.returned = content,
                                         !.notion_calls = r.notion_calls,
                                         !.response = r.response]
    /\ UNCHANGED << messages, current_transcript, current_analysis, notion, model >>

\* clear_conversation that leaves self.current_analysis as it is
ClearKeepsAnalysis ==
    /\ messages' = << >>
    /\ current_transcript' = None
    /\ request' = [NoRequest EXCEPT !.op = "clear", !.before = Len(messages)]
    /\ UNCHANGED << current_analysis, notion, model >>

\* clear_conversation() (lines 225-228)
Clear ==
    /\ messages' = << >>
    /\ current_transcript' = None
    /\ current_analysis' = None
    /\ request' = [NoRequest EXCEPT !.op = "clear", !.before = Len(messages)]
    /\ UNCHANGED << notion, model >>

Next == ProcessTranscript \/ Chat \/ CreateNotionPage \/ Clear

Spec == Init /\ [][Next]_vars

(***************************************************************************)
(* The claims                                                              *)
(***************************************************************************)
\* the session is Ready: an analysis is stored
Ready == current_analysis # None

\* the lower-cased message contains a trigger phrase of the Notion write
ContainsTrigger ==
    [m \in UserMessages |->
        \E i \in 1..Len(notion_triggers) : Contains(Lower(m), notion_triggers[i])]

\* the last request was a chat turn with this message
ChatOf(m) == request.op = "chat" /\ request.input = m

\* C1: every chat turn that returns a reply appends exactly two messages, the
\* user's message and then one assistant message holding the reply.
C1_TurnAppendsTwo ==
    (request.op = "chat" /\ ~request.raised) =>
        /\ Len(messages) = request.before + 2
        /\ messages[request.before + 1] = Message("user", request.input)
        /\ messages[request.before + 2] = Message("assistant", request.reply)

\* a is an analysis of the transcript t: some behaviour of the model calls
\* makes the orchestrator return a for t
IsAnalysisOf(a, t) ==
    /\ t # None
    /\ t.s \in Transcripts
    /\ \E calls \in ModelCallScenarios :
           ~Orchestrated[t.s, calls].raised /\ Orchestrated[t.s, calls].analysis = a

\* C2: after a process_transcript whose orchestration failed no analysis is
\* stored, and a stored analysis is always an analysis of the stored transcript.
C2_NoStaleAnalysis ==
    /\ (request.op = "process_transcript" /\ request.failed) => current_analysis = None
    /\ Ready => IsAnalysisOf(current_analysis, current_transcript)

\* C3: the orchestrator never raises, whatever the model calls do and whatever
\* the transcript holds: every process_transcript returns an analysis.
C3_AnalyzeNeverRaises ==
    request.op = "process_transcript" =>
        /\ ~request.failed
        /\ request.returned = current_analysis
        /\ current_analysis # None

\* C4: with no analysis stored, a chat turn answers with the fixed request for
\* a transcript, whatever the message, and calls neither the model adapter nor
\* create_meeting_page.
C4_EmptyNeedsTranscript ==
    (request.op = "chat" /\ ~Ready) =>
        /\ ~request.raised
        /\ request.reply = NeedTranscriptMsg
        /\ request.model_calls = << >>
        /\ request.notion_calls = << >>

C4_Witness ==
    /\ ChatOf(MsgSaveTitled) /\ ~Ready /\ notion
    /\ request.reply = NeedTranscriptMsg

\* C5: with an analysis stored, a message that contains a trigger phrase never
\* reaches the model adapter, also when it contains a topical keyword, and is
\* answered by the Notion branch; a message without a trigger phrase never
\* calls create_meeting_page.
C5_PersistenceFirst ==
    (request.op = "chat" /\ Ready) =>
        /\ ContainsTrigger[request.input] =>
               /\ request.model_calls = << >>
               /\ notion => Len(request.notion_calls) = 1
               /\ ~notion => request.reply = NotionNotConfiguredMsg
        /\ ~ContainsTrigger[request.input] => request.notion_calls = << >>

C5_Witness ==
    /\ ChatOf(MsgSaveMeeting) /\ Ready /\ notion
    /\ AnyKeyword(Lower(request.input), SchedulingKeywords)
    /\ Len(request.notion_calls) = 1

\* 'Weekly Sync'
TitleWeeklySync ==
    << "W", "e", "e", "k", "l", "y", " ", "S", "y", "n", "c" >>

\* C6: "Please save to notion, titled Weekly Sync" with Notion configured calls
\* create_meeting_page exactly once with the title "Weekly Sync", in the case of
\* the message, and the reply holds the page id that was returned.
C6_TitleKeepsCase ==
    (ChatOf(MsgSaveTitled) /\ Ready /\ notion) =>
        /\ Len(request.notion_calls) = 1
        /\ request.notion_calls[1].title = TitleWeeklySync
        /\ \/ request.reply = SavedToNotionPrefix \o PageId
           \/ request.reply = FailedNotionPrefix \o NotionErrorText

\* C7: with an analysis stored and no Notion integration, a message with a
\* trigger phrase gets the fixed "not configured" reply, no call is made to
\* create_meeting_page or to the model adapter, and the stored transcript and
\* analysis stay as they were.
C7_NotConfigured ==
    [][(request'.op = "chat" /\ request' # request /\ Ready /\ ~notion
            /\ ContainsTrigger[request'.input]) =>
          /\ request'.reply = NotionNotConfiguredMsg
          /\ request'.notion_calls = << >>
          /\ request'.model_calls = << >>
          /\ current_transcript' = current_transcript
          /\ current_analysis' = current_analysis]_vars

C7_Witness ==
    /\ ChatOf(MsgSaveTitled) /\ Ready /\ ~notion
    /\ request.reply = NotionNotConfiguredMsg

\* the keyword group the claim gives a message: scheduling before task before
\* decision, else the default
ScopeOf(m) ==
    IF AnyKeyword(Lower(m), SchedulingKeywords) THEN << "meeting_requests" >>
    ELSE IF AnyKeyword(Lower(m), TaskKeywords) THEN << "action_items" >>
    ELSE IF AnyKeyword(Lower(m), DecisionKeywords) THEN << "key_decisions" >>
    ELSE << "summary", "action_items", "meeting_requests", "key_decisions" >>

Scope == [m \in UserMessages |-> ScopeOf(m)]

\* the value of a field of the stored analysis
AnalysisField(name) ==
    CASE name = "summary"          -> current_analysis.summary
      [] name = "action_items"     -> current_analysis.action_items
      [] name = "meeting_requests" -> current_analysis.meeting_requests
      [] name = "key_decisions"    -> current_analysis.key_decisions

\* C8: a chat turn without a trigger phrase, with an analysis stored, calls the
\* model adapter exactly once, with a prompt that holds the user's message and
\* the analysis fields of the first keyword group present, in the order
\* scheduling, task, decision, default.
C8_TopicalPrecedence ==
    (request.op = "chat" /\ Ready /\ ~ContainsTrigger[request.input]) =>
        /\ Len(request.model_calls) = 1
        /\ request.model_calls[1].prompt.fields = Scope[request.input]
        /\ request.model_calls[1].prompt.data =
               [i \in 1..Len(Scope[request.input]) |-> AnalysisField(Scope[request.input][i])]
        /\ request.model_calls[1].prompt.user = request.input

C8_Witness ==
    /\ ChatOf(MsgActionAgreed) /\ Ready
    /\ AnyKeyword(Lower(request.input), TaskKeywords)
    /\ AnyKeyword(Lower(request.input), DecisionKeywords)
    /\ request.model_calls[1].prompt.fields = << "action_items" >>

\* C9: when the model adapter returns the empty string, the reply is the fixed
\* "no response" message, never an empty reply, and the history ends with it
\* as an assistant message.
C9_EmptyReplyFallback ==
    (request.op = "chat" /\ request.model_calls # << >>
            /\ request.model_calls[1].raw = Str(<< >>)) =>
        /\ ~request.raised
        /\ request.reply = NoResponseMsg
        /\ request.reply # << >>
        /\ messages[Len(messages)] = Message("assistant", NoResponseMsg)

C9_Witness ==
    /\ ChatOf(MsgConclusion) /\ request.model_calls # << >>
    /\ request.model_calls[1].raw = Str(<< >>)
    /\ request.model_calls[1].called # << >>

\* C10: when the orchestration raises inside process_transcript, no exception
\* leaves the call, it returns the empty analysis {} and the history grows by
\* exactly one assistant message, which holds the text of the failure.
C10_FailureIsCaught ==
    (request.op = "process_transcript" /\ request.failed) =>
        /\ ~request.raised
        /\ request.returned = EmptyDict
        /\ Len(messages) = request.before + 1
        /\ messages[Len(messages)] =
               Message("assistant", ErrorProcessingPrefix \o request.error)

C10_Witness ==
    /\ request.op = "process_transcript" /\ request.failed
    /\ request.input = TranscriptBadSecond
    /\ request.error = SecondRangeMsg

\* C11: clear() leaves the history empty and the transcript and the analysis
\* absent, and the chat turn that follows it gives the reply, and makes the
\* calls, that the same message gets on a newly created session.
C11_ClearRestoresNewSession ==
    /\ request.op = "clear" =>
           messages = << >> /\ current_transcript = None /\ current_analysis = None
    /\ (request.op = "chat" /\ request.before = 0) =>
           \A s \in NewSessions :
               \E page \in PageResults, cands \in AdapterScenarios :
                   LET new == GetResponse(Scanned[request.input], request.input,
                                          s.current_analysis, s.current_transcript,
                                          notion, page, Adapted[model, cands])
                   IN  /\ request.reply = new.reply
                       /\ request.model_calls = new.model_calls
                       /\ request.notion_calls = new.notion_calls

\* process_transcript has an outcome in this state: the enabling condition of
\* ProcessTranscript
CanProcessTranscript ==
    \E t \in Transcripts, calls \in ModelCallScenarios :
        Len(ChatProcessTranscript(messages, current_analysis, t,
                                  Orchestrated[t, calls]).messages) <= MaxMessages

\* a chat turn has an outcome in this state: the enabling condition of Chat
CanChat ==
    \E m \in UserMessages, page \in PageResults, cands \in AdapterScenarios :
        Len(ChatTurn(messages, m,
                     GetResponse(Scanned[m], m, current_analysis, current_transcript,
                                 notion, page, Adapted[model, cands]))) <= MaxMessages

\* C12: the session is Ready exactly when a process_transcript has succeeded
\* since it was created or last cleared: a newly created session is Ready only
\* when its own process_transcript succeeded; a process_transcript step ends
\* Ready when it succeeds and leaves Empty/Ready as it was when it fails; a chat
\* turn never moves the session between Empty and Ready; clear ends in Empty;
\* and no state is terminal: clear is enabled everywhere, and so are chat and
\* process_transcript wherever the history bound leaves room for them.
C12_TwoStateMachine ==
    /\ Ready => messages[1] = Message("assistant", TranscriptProcessedMsg)
    /\ [][/\ request'.op = "process_transcript" =>
                (Ready' <=> (Ready \/ ~request'.failed))
          /\ request'.op = "chat" => (Ready' <=> Ready)
          /\ request'.op = "clear" => ~Ready']_vars
    /\ [](/\ ENABLED Clear
          /\ Len(messages) + 3 <= MaxMessages => CanChat /\ CanProcessTranscript)

C12_Witness ==
    /\ request.op = "process_transcript" /\ request.failed
    /\ request.before >= 1
    /\ Ready


\* C13: every call of the model invocation adapter (_call_model) made by a chat
\* turn returns a string, and returns the empty string when no candidate call
\* produced a value (every candidate probed was absent, raised or fell through).
C13_CallModelReturnsString ==
    \A i \in 1..Len(request.model_calls) :
        /\ IsStr(request.model_calls[i].raw)
        /\ request.model_calls[i].called = << >> => request.model_calls[i].raw = Str(<< >>)


\* the duration the contract states for an utterance sequence: the difference
\* of the last and first timestamps as M:SS, and 0:00 for an empty sequence, an
\* unparseable timestamp or a negative difference
DurationMinSec(msgs) ==
    IF msgs = << >> THEN ZeroDuration
    ELSE Only({ IF t1.raised \/ t2.raised \/ t2.t < t1.t THEN ZeroDuration
                ELSE NatToStr((t2.t - t1.t) \div 60) \o << ":" >> \o Pad2((t2.t - t1.t) % 60) :
                  t1 \in {Strptime(msgs[1].timestamp)},
                  t2 \in {Strptime(msgs[Len(msgs)].timestamp)} })

\* C14: a process_transcript does not fail on a timestamp, and the duration of
\* the analysis it returns is the difference of the last and first timestamps
\* formatted M:SS (45 seconds give 0:45), 0:00 when the difference is negative
\* or a timestamp is unparseable or there is no utterance.
C14_DurationMinSec ==
    request.op = "process_transcript" =>
        /\ request.failed => request.error \notin
               {calculate_duration(extract_messages(t)).err : t \in Transcripts} \ {<< >>}
        /\ ~request.failed =>
               request.returned.duration = DurationMinSec(extract_messages(request.input))


(***************************************************************************)
(* The transcript processor on its own: an input is drawn, and one of the  *)
(* processor's methods is applied to it.                                   *)
(***************************************************************************)
\* the lines transcripts are made of: three of the form
\* [HH:MM:SS] Speaker: content (the first one from SAMPLE_TRANSCRIPT) and two
\* blank ones:
\*   "[00:00:00] John: Let's discuss the project timeline."
\*   "[00:00:15] Sarah : at 2:30 [room B]"
\*   "[00:00:45] Mike:  ok "
\*   "  " and ""
TranscriptLines ==
    << << "[", "0", "0", ":", "0", "0", ":", "0", "0", "]", " ", "J", "o", "h", "n", ":",
       " ", "L", "e", "t", "'", "s", " ", "d", "i", "s", "c", "u", "s", "s", " ", "t", "h",
       "e", " ", "p", "r", "o", "j", "e", "c", "t", " ", "t", "i", "m", "e", "l", "i", "n",
       "e", "." >>,
       << "[", "0", "0", ":", "0", "0", ":", "1", "5", "]", " ", "S", "a", "r", "a", "h",
       " ", ":", " ", "a", "t", " ", "2", ":", "3", "0", " ", "[", "r", "o", "o", "m", " ",
       "B", "]" >>,
       << "[", "0", "0", ":", "0", "0", ":", "4", "5", "]", " ", "M", "i", "k", "e", ":",
       " ", " ", "o", "k", " " >>,
       << " ", " " >>,
       << >> >>

\* the most lines of a transcript
MaxLines == 3

\* "\n".join(lines)
RECURSIVE JoinLines(_)
JoinLines(lines) ==
    IF lines = << >> THEN << >>
    ELSE IF Len(lines) = 1 THEN lines[1]
    ELSE lines[1] \o << "\n" >> \o JoinLines(Tail(lines))

LineTranscripts ==
    { JoinLines([i \in 1..Len(pick) |-> TranscriptLines[pick[i]]]) :
        pick \in UNION { [1..n -> 1..Len(TranscriptLines)] : n \in 0..MaxLines } }

\* what the model call of an extractor returns: a response whose text holds
\* JSON inside prose, prose only, nothing, the malformed JSON
\* 'x {"a": [1, } ] y', or whose .text raises
ModelResponses ==
    { Returns(TextResponse(TextSummaryJson)), Returns(TextResponse(TextArrayJson)),
      Returns(TextResponse(TextProse)), Returns(TextResponse(<< >>)),
      Returns(TextResponse(
          << "x", " ", "{", "\"", "a", "\"", ":", " ", "[", "1", ",", " ", "}", " ", "]",
          " ", "y" >>)),
      Returns(PyObject(<< << "text", AttrRaises >> >>)) }

\* transcripts of one or two lines that are not of the form
\* [HH:MM:SS] Speaker: content:
\*   "[note] [00:00:05] Ann: hi", "Ann [00:00:07] Bob: yo: there",
\*   "no timestamp: here" and "[00:00:09] no colon"
LenientTranscripts ==
    LET lines == << << "[", "n", "o", "t", "e", "]", " ", "[", "0", "0", ":", "0", "0", ":",
                      "0", "5", "]", " ", "A", "n", "n", ":", " ", "h", "i" >>,
                   << "A", "n", "n", " ", "[", "0", "0", ":", "0", "0", ":", "0", "7", "]",
                      " ", "B", "o", "b", ":", " ", "y", "o", ":", " ", "t", "h", "e", "r",
                      "e" >>,
                   << "n", "o", " ", "t", "i", "m", "e", "s", "t", "a", "m", "p", ":", " ",
                      "h", "e", "r", "e" >>,
                   << "[", "0", "0", ":", "0", "0", ":", "0", "9", "]", " ", "n", "o", " ",
                      "c", "o", "l", "o", "n" >> >>
    IN  { JoinLines([i \in 1..Len(pick) |-> lines[pick[i]]]) :
            pick \in UNION { [1..n -> 1..Len(lines)] : n \in 1..2 } }

ProcessorInit ==
    /\ messages = << >>
    /\ current_transcript = None
    /\ current_analysis = None
    /\ notion = FALSE
    /\ model = FALSE
    /\ \/ \E t \in LineTranscripts \cup LenientTranscripts :
              request = [NoRequest EXCEPT !.op = "transcript", !.input = t]
       \/ \E call \in ModelResponses :
              request = [NoRequest EXCEPT !.op = "response", !.input = call]

\* the request after an extractor has run on the response drawn
Extracted(op, result) ==
    [request EXCEPT !.op = op, !.raised = result.raised, !.error = result.err,
                    !.returned = result.v]

\* processor.extract_messages(transcript)
ExtractMessages ==
    /\ request.op = "transcript"
    /\ request' = [request EXCEPT !.op = "extract_messages",
                                  !.returned = extract_messages(request.input)]
    /\ UNCHANGED << messages, current_transcript, current_analysis, notion, model >>

\* processor.generate_summary(messages)
GenerateSummary ==
    /\ request.op = "response"
    /\ request' = Extracted("generate_summary", generate_summary(request.input))
    /\ UNCHANGED << messages, current_transcript, current_analysis, notion, model >>

\* processor.extract_action_items(messages)
ExtractActionItems ==
    /\ request.op = "response"
    /\ request' = Extracted("extract_action_items", extract_action_items(request.input))
    /\ UNCHANGED << messages, current_transcript, current_analysis, notion, model >>

\* processor.extract_meeting_requests(messages)
ExtractMeetingRequests ==
    /\ request.op = "response"
    /\ request' = Extracted("extract_meeting_requests", extract_meeting_requests(request.input))
    /\ UNCHANGED << messages, current_transcript, current_analysis, notion, model >>

\* processor.extract_key_decisions(messages)
ExtractKeyDecisions ==
    /\ request.op = "response"
    /\ request' = Extracted("extract_key_decisions", extract_key_decisions(request.input))
    /\ UNCHANGED << messages, current_transcript, current_analysis, notion, model >>

ProcessorNext ==
    \/ ExtractMessages
    \/ GenerateSummary
    \/ ExtractActionItems
    \/ ExtractMeetingRequests
    \/ ExtractKeyDecisions

ProcessorSpec == ProcessorInit /\ [][ProcessorNext]_vars

\* the fallback of generate_summary for a response text
SummaryFallback(text) ==
    PyDict(<< << KeySummary, text >>, << KeyMainTopics, PyList(<< >>) >>,
              << KeyKeyPoints, PyList(<< >>) >> >>)

\* C15: every extractor returns, whatever the response: the summary extractor
\* returns the JSON value between the first { and the last } of the response
\* text when that parses, and otherwise the fallback object
\* {summary: <response text>, main_topics: [], key_points: []}; an array
\* extractor returns the JSON value between the first [ and the last ] when
\* that parses, and otherwise the empty list.
C15_ExtractorsRecover ==
    /\ request.op = "generate_summary" =>
           /\ ~request.raised
           /\ \E parsed \in {ExtractJson(request.input.resp, "{", "}")} :
                  request.returned = IF parsed.ok THEN parsed.v
                                     ELSE SummaryFallback(GetAttr(request.input.resp, "text"))
    /\ request.op \in {"extract_action_items", "extract_meeting_requests",
                       "extract_key_decisions"} =>
           /\ ~request.raised
           /\ \E parsed \in {ExtractJson(request.input.resp, "[", "]")} :
                  request.returned = IF parsed.ok THEN parsed.v ELSE PyList(<< >>)


\* a line that is not blank
NonBlank(line) == \E i \in 1..Len(line) : line[i] \notin Whitespace

\* the utterance a line of the form [HH:MM:SS] Speaker: content stands for: the
\* eight characters inside the bracket, and the trimmed text before and after
\* the first colon behind the bracket
UtteranceOf(line) ==
    LET rest  == SubSeq(line, 11, Len(line))
        colon == CHOOSE k \in 1..Len(rest) : rest[k] = ":" /\ \A j \in 1..(k - 1) : rest[j] # ":"
    IN  [timestamp |-> SubSeq(line, 2, 9),
         speaker   |-> Strip(SubSeq(rest, 1, colon - 1)),
         content   |-> Strip(SubSeq(rest, colon + 1, Len(rest)))]

\* the utterances of the non-blank lines, in line order
RECURSIVE UtterancesOf(_)
UtterancesOf(lines) ==
    IF lines = << >> THEN << >>
    ELSE (IF NonBlank(Head(lines)) THEN << UtteranceOf(Head(lines)) >> ELSE << >>)
         \o UtterancesOf(Tail(lines))

\* C16: for a transcript whose non-blank lines all have the form
\* [HH:MM:SS] Speaker: content, extract_messages returns one utterance for each
\* non-blank line, in line order, with the speaker and the content the trimmed
\* text before and after the first colon behind the bracket; for an empty or
\* all-blank transcript it returns the empty sequence.
C16_OneUtterancePerLine ==
    (request.op = "extract_messages" /\ request.input \in LineTranscripts) =>
        request.returned = UtterancesOf(Split(request.input, << "\n" >>))

C16_Witness ==
    /\ request.op = "extract_messages"
    /\ Len(request.returned) = 2
    /\ Len(Split(request.input, << "\n" >>)) = MaxLines
    /\ \E i \in 1..Len(request.returned) : Contains(request.returned[i].content, << ":" >>)


\* the response the client ends with: a redirect to / is followed by GET /
FinalResponse ==
    IF request.response.status = 303 /\ request.response.location = "/"
    THEN root(messages, current_analysis).response
    ELSE request.response

\* C17: a POST /process-transcript with a well-formed transcript whose model
\* calls all answer ends with a response of status 200 whose body is a JSON
\* object with the key summary.
C17_FinalResponseHasSummary ==
    (request.op = "process_transcript" /\ request.input = TranscriptTwoLines
            /\ ~request.failed) =>
        /\ FinalResponse.status = 200
        /\ FinalResponse.media = "application/json"
        /\ "summary" \in FinalResponse.keys

\* C18: a request that ends with an error response has changed nothing of the
\* session: neither the history nor the transcript nor the analysis.
C18_ErrorResponseChangesNothing ==
    [][request'.response.status >= 400 =>
           UNCHANGED << messages, current_transcript, current_analysis >>]_vars


\* the conversations served by one process
MaxConversations == 2

\* the session state a conversation observes: every conversation is served by
\* the one chat_handler of the module (src/api/main.py:45), whatever the client
SessionOf(conversation) == << messages, current_transcript, current_analysis >>

\* C19: an operation performed for one conversation leaves the history, the
\* transcript and the analysis observed by every other conversation unchanged.
C19_SessionsIndependent ==
    [][\E c \in 1..MaxConversations :
           \A d \in (1..MaxConversations) \ {c} : SessionOf(d)' = SessionOf(d)]_vars


\* a is a prefix of b
IsPrefix(a, b) == Len(a) <= Len(b) /\ SubSeq(b, 1, Len(a)) = a

\* C20: every operation but clear leaves the history it found as a prefix of the
\* history it leaves: messages are appended, never changed, moved or removed.
C20_AppendOnly ==
    [][request'.op # "clear" => IsPrefix(messages, messages')]_vars

C20_Witness ==
    /\ request.op \in {"chat", "process_transcript"}
    /\ request.before >= 2
    /\ Len(messages) > request.before


\* C21: a transcript upload never calls create_meeting_page; a request that
\* calls it is a chat turn whose message holds a trigger phrase, served with an
\* analysis stored and the Notion integration configured, or a POST
\* /create-notion-page; and such a request calls it once.
C21_NotionWritesExplicit ==
    /\ request.op \in {"init", "process_transcript", "clear"} => request.notion_calls = << >>
    /\ request.notion_calls # << >> =>
           /\ Len(request.notion_calls) = 1
           /\ notion
           /\ \/ request.op = "create_notion_page"
              \/ /\ request.op = "chat"
                 /\ NotionIntent(Strip(Lower(request.input)))
                 /\ Ready

C21_Witness ==
    /\ request.op = "chat"
    /\ Len(request.notion_calls) = 1
    /\ request.before >= 1


(***************************************************************************)
(* The model adapter on its own: what the seven candidate calls do is      *)
(* drawn, and _call_model is applied.                                      *)
(***************************************************************************)
\* what the candidate calls do: all are absent but at most two, each of which
\* raises or returns an object with .text, an object with .content, a mapping
\* with the key output, a mapping with none of the keys, a string, or a list
CandidateLists ==
    LET outcomes == { Absent, Raises,
                      Returns(TextResponse(TextReply)),
                      Returns(PyObject(<< << "content", Str(TextReply) >> >>)),
                      Returns(PyDict(<< << DictKeyOutput, Str(TextReply) >> >>)),
                      Returns(PyDict(<< << KeySummary, Str(TextReply) >> >>)),
                      Returns(Str(TextReply)),
                      Returns(PyList(<< >>)) }
    IN  { [i \in 1..NumCandidates |-> IF i = a THEN x ELSE IF i = b THEN y ELSE Absent] :
            a, b \in 1..NumCandidates, x, y \in outcomes }

AdapterInit ==
    /\ messages = << >>
    /\ current_transcript = None
    /\ current_analysis = None
    /\ notion = FALSE
    /\ model \in BOOLEAN
    /\ \E cands \in CandidateLists :
           request = [NoRequest EXCEPT !.op = "candidates", !.input = cands]

\* self._call_model(prompt)
InvokeModel ==
    /\ request.op = "candidates"
    /\ request' = [request EXCEPT !.op = "call_model",
                                  !.returned = CallModel(model, request.input)]
    /\ UNCHANGED << messages, current_transcript, current_analysis, notion, model >>

AdapterSpec == AdapterInit /\ [][InvokeModel]_vars

\* candidate i is there to be called
Present(i) == Probed(model, i) /\ request.input[i].out # "absent"

\* candidate i, called, gives no result: the call raises, or nothing is taken
\* from what it returns
Fails(i) ==
    \/ request.input[i].out = "raise"
    \/ ~NormalizeResponse(request.input[i].resp, i <= Len(ModelMethods)).done

\* C22: _call_model calls the candidates in the fixed order, each at most once:
\* a candidate is called exactly when it is present and every present
\* candidate before it has failed, so that no candidate is called after one
\* that gave the result.
C22_SequentialProbing ==
    request.op = "call_model" =>
        \E called \in {request.returned.called} :
            /\ \A k \in 1..(Len(called) - 1) : called[k] < called[k + 1]
            /\ \A i \in 1..NumCandidates :
                   (\E k \in 1..Len(called) : called[k] = i) <=>
                       (Present(i) /\ \A j \in 1..(i - 1) : Present(j) => Fails(j))

C22_Witness ==
    /\ request.op = "call_model"
    /\ Len(request.returned.called) = 1
    /\ ~Fails(request.returned.called[1])
    /\ \E i \in 1..NumCandidates : i > request.returned.called[1] /\ Present(i)


\* C23: whichever candidate it is, a call that returns an object with .text or
\* .content, a mapping or a string gives the result of _call_model, by the one
\* rule: .text, else .content, else the first of the keys content, text,
\* output, else the mapping as JSON, else the string.
C23_SameRuleEveryCandidate ==
    request.op = "call_model" =>
        \A k \in 1..Len(request.returned.called) :
            \E resp \in {request.input[request.returned.called[k]]} :
                (resp.out = "return" /\ NormalizeResponse(resp.resp, TRUE).done) =>
                    /\ k = Len(request.returned.called)
                    /\ request.returned.raw = NormalizeResponse(resp.resp, TRUE).raw


\* C24: a process_transcript whose orchestration succeeds stores the transcript
\* it was given and the analysis it returns, and appends one assistant message,
\* which holds the summary text of that analysis when there is one.
C24_SummaryInMessage ==
    (request.op = "process_transcript" /\ ~request.failed) =>
        /\ current_transcript = Str(request.input)
        /\ current_analysis = request.returned
        /\ Len(messages) = request.before + 1
        /\ messages[Len(messages)].role = "assistant"
        /\ \E summary_text \in {SummaryText(current_analysis)} :
               (IsStr(summary_text) /\ summary_text.s # << >>) =>
                   Contains(messages[Len(messages)].content, summary_text.s)


\* C25: a chat turn changes the history only: whatever branch get_response
\* takes, the stored transcript and the stored analysis stay as they were.
C25_ChatKeepsAnalysis ==
    [][request'.op = "chat" =>
           UNCHANGED << current_transcript, current_analysis, notion, model >>]_vars

C25_Witness ==
    /\ request.op = "chat"
    /\ Ready
    /\ request.notion_calls # << >>
    /\ Len(messages) = request.before + 3


\* C26: a chat turn that calls create_meeting_page does not raise, whatever the
\* call does: its reply is the confirmation with the page id or the error text
\* with the detail of the failure, the reply is the last message of the
\* history, from the assistant, and the analysis is still stored.
C26_NotionFailureIsCaught ==
    (request.op = "chat" /\ request.notion_calls # << >>) =>
        /\ ~request.raised
        /\ request.response = RedirectResponse
        /\ request.reply \in {SavedToNotionPrefix \o PageId,
                              FailedNotionPrefix \o NotionErrorText}
        /\ messages[Len(messages)] = Message("assistant", request.reply)
        /\ Ready

C26_Witness ==
    /\ request.op = "chat"
    /\ request.reply = FailedNotionPrefix \o NotionErrorText
    /\ request.before >= 1
    /\ Ready


\* the utterances a line stands for when the text behind the closing bracket
\* of its first bracketed timestamp is split at the first colon: none when the
\* line has no such timestamp or that text has no colon
LenientUtterance(line) ==
    LET at   == {i \in 1..Len(line) : TimestampAt(line, i)}
        i0   == CHOOSE i \in at : \A j \in at : i <= j
        rest == SubSeq(line, i0 + 10, Len(line))
        cs   == {k \in 1..Len(rest) : rest[k] = ":"}
        c0   == CHOOSE k \in cs : \A j \in cs : k <= j
    IN  IF at = {} THEN << >>
        ELSE IF cs = {} THEN << >>
        ELSE << [timestamp |-> SubSeq(line, i0 + 1, i0 + 8),
                 speaker   |-> Strip(SubSeq(rest, 1, c0 - 1)),
                 content   |-> Strip(SubSeq(rest, c0 + 1, Len(rest)))] >>

RECURSIVE LenientUtterances(_)
LenientUtterances(lines) ==
    IF lines = << >> THEN << >>
    ELSE LenientUtterance(Head(lines)) \o LenientUtterances(Tail(lines))

\* C27: for every line with a bracketed HH:MM:SS timestamp somewhere in it,
\* extract_messages splits the text behind that timestamp's closing bracket at
\* its first colon into the trimmed speaker and content; a line without such a
\* timestamp, or without a colon behind it, gives no utterance.
C27_LenientScan ==
    request.op = "extract_messages" =>
        request.returned = LenientUtterances(Split(request.input, << "\n" >>))


\* the message names no title: it has no marker, or nothing but blanks behind
\* its marker (titled when present, else title)
NamesNoTitle(text) ==
    \/ ~Contains(text, SepTitle)
    \/ Strip(SplitOnce(text, IF Contains(text, SepTitled) THEN SepTitled ELSE SepTitle)[2])
           = << >>

\* C28: a chat turn that calls create_meeting_page for a message that names no
\* title calls it with the fallback title: the fixed prefix and the first line
\* of the first 30 characters of the transcript.
C28_FallbackTitle ==
    (request.op = "chat" /\ request.notion_calls # << >>
            /\ NamesNoTitle(Strip(Lower(request.input)))) =>
        request.notion_calls[1].title = FallbackTitle(current_transcript)


get_messages == [same |-> TRUE, items |-> << >>]

\* the items of the list the caller holds
Held == IF request.returned.same THEN messages ELSE request.returned.items

HistoryInit ==
    /\ messages = << Message("assistant", ReadyMsg) >>
    /\ current_transcript = None
    /\ current_analysis = None
    /\ notion = FALSE
    /\ model = FALSE
    /\ request = [NoRequest EXCEPT !.op = "get_messages", !.returned = get_messages]

\* a caller takes chat_handler.get_messages()
GetMessages ==
    /\ request' = [request EXCEPT !.op = "get_messages", !.returned = get_messages]
    /\ UNCHANGED << messages, current_transcript, current_analysis, notion, model >>

\* add_message(content, role) (lines 53-54): self.messages.append
AddMessage ==
    /\ Len(messages) < MaxMessages
    /\ \E role \in {"user", "assistant"}, content \in {MsgConclusion} :
           messages' = add_message(messages, content, role)
    /\ request' = [request EXCEPT !.op = "add_message"]
    /\ UNCHANGED << current_transcript, current_analysis, notion, model >>

\* clear_conversation (lines 225-228): self.messages = []
ClearConversation ==
    /\ messages' = << >>
    /\ request' = [request EXCEPT !.op = "clear",
                                  !.returned = IF @.same
                                               THEN [same |-> FALSE, items |-> messages]
                                               ELSE @]
    /\ UNCHANGED << current_transcript, current_analysis, notion, model >>

\* the caller appends to the list it holds
HolderAppends ==
    /\ Len(Held) < MaxMessages
    /\ \E m \in {Message("user", MsgConclusion)} :
           IF request.returned.same
           THEN /\ messages' = Append(messages, m)
                /\ request' = [request EXCEPT !.op = "holder_appends"]
           ELSE /\ messages' = messages
                /\ request' = [request EXCEPT !.op = "holder_appends",
                                              !.returned.items = Append(@, m)]
    /\ UNCHANGED << current_transcript, current_analysis, notion, model >>

HistoryNext == GetMessages \/ AddMessage \/ ClearConversation \/ HolderAppends

HistorySpec == HistoryInit /\ [][HistoryNext]_vars

\* C30: the list a caller got from get_messages keeps its items when a message
\* is added to the session afterwards, and the history of the session keeps
\* its messages when the caller appends to that list.
C30_SnapshotIsReadOnly ==
    [][/\ request'.op = "add_message" => Held' = Held
       /\ request'.op = "holder_appends" => messages' = messages]_vars


(***************************************************************************)
(* CalendarIntegration.suggest_meeting_times, one statement at a time.     *)
(* Times are minutes from 00:00 of target_date.  request.input holds the   *)
(* arguments, the events the calendar service has, and the locals of the   *)
(* call; checked lists the slots passed to check_availability so far.      *)
(* The service is taken to answer every listing.                           *)
(***************************************************************************)

\* timedelta(minutes=30) (line 102)
SlotMinutes == 30

\* datetime.replace(hour=h, ...) raises ValueError unless 0 <= h <= 23
ValidHour(h) == h \in 0..23

\* target_date.replace(hour=h, minute=0, second=0, microsecond=0) (lines 96-97)
AtHour(h) == h * 60

\* check_availability (lines 65-85): the events the service lists between
\* start_time and start_time + duration_minutes; free when it lists none
check_availability(start_time, duration_minutes, events) ==
    LET end_time == start_time + duration_minutes
        items == { e \in events : e.end > start_time /\ e.start < end_time }
    IN  Cardinality(items) = 0

\* while current_slot <= end_time
InWindowInclusive(current_slot, end_time) == current_slot <= end_time

\* while current_slot < end_time (line 99)
InWindow(current_slot, end_time) == current_slot < end_time

\* the start_hour and end_hour values of the calls
HourValues == {-1, 0, 1, 2, 22, 23, 24}

\* the events of the calendar on target_date
CalendarEvents ==
    { [start |-> 0, end |-> 45], [start |-> 90, end |-> 100],
      [start |-> 1350, end |-> 1380] }

CalendarInit ==
    /\ messages = << >>
    /\ current_transcript = None
    /\ current_analysis = None
    /\ notion = FALSE
    /\ model = FALSE
    /\ \E start_hour \in HourValues, end_hour \in HourValues,
          duration_minutes \in {30, 60}, events \in SUBSET CalendarEvents :
           request = [NoRequest EXCEPT
                        !.op = "suggest_meeting_times",
                        !.input = [start_hour |-> start_hour, end_hour |-> end_hour,
                                   duration_minutes |-> duration_minutes,
                                   events |-> events,
                                   current_slot |-> 0, end_time |-> 0,
                                   suggestions |-> << >>, checked |-> << >>]]

\* lines 95-97: suggestions = [], then the two replace calls
SuggestMeetingTimes ==
    /\ request.op = "suggest_meeting_times"
    /\ IF ValidHour(request.input.start_hour) /\ ValidHour(request.input.end_hour)
       THEN request' = [request EXCEPT
                          !.op = "while",
                          !.input.current_slot = AtHour(request.input.start_hour),
                          !.input.end_time = AtHour(request.input.end_hour)]
       ELSE request' = [request EXCEPT !.op = "raised", !.raised = TRUE]
    /\ UNCHANGED << messages, current_transcript, current_analysis, notion, model >>

\* lines 99-102: one turn of the loop
CheckSlot ==
    /\ request.op = "while"
    /\ InWindow(request.input.current_slot, request.input.end_time)
    /\ \E free \in {check_availability(request.input.current_slot,
                                       request.input.duration_minutes,
                                       request.input.events)} :
           request' = [request EXCEPT
                         !.input.checked = Append(@, request.input.current_slot),
                         !.input.suggestions =
                             IF free THEN Append(@, request.input.current_slot) ELSE @,
                         !.input.current_slot = @ + SlotMinutes]
    /\ UNCHANGED << messages, current_transcript, current_analysis, notion, model >>

\* lines 99 and 104: the loop ends and the suggestions are returned
ReturnSuggestions ==
    /\ request.op = "while"
    /\ ~InWindow(request.input.current_slot, request.input.end_time)
    /\ request' = [request EXCEPT !.op = "returned",
                                  !.returned = PyList(request.input.suggestions)]
    /\ UNCHANGED << messages, current_transcript, current_analysis, notion, model >>

CalendarNext == SuggestMeetingTimes \/ CheckSlot \/ ReturnSuggestions

\* the call runs on once started
CalendarSpec == CalendarInit /\ [][CalendarNext]_vars /\ WF_vars(CalendarNext)

\* the slots start_hour:00 + k*30 minutes, k >= 0, before end_hour:00, ascending
WindowSlots(start_hour, end_hour) ==
    LET first == start_hour * 60
        last == end_hour * 60
        n == IF last <= first THEN 0 ELSE (last - first + 29) \div 30
    IN  [k \in 1..n |-> first + (k - 1) * 30]

\* the slots of the window with no conflicting event, ascending
FreeSlots(start_hour, end_hour, duration_minutes, events) ==
    LET free(s) == check_availability(s, duration_minutes, events)
    IN  SelectSeq(WindowSlots(start_hour, end_hour), free)

CallEnded == request.op \in {"returned", "raised"}

\* what the claim says of an ended call
ReturnsTheFreeSlots ==
    IF request.op = "returned"
    THEN /\ request.returned =
                PyList(FreeSlots(request.input.start_hour, request.input.end_hour,
                                 request.input.duration_minutes, request.input.events))
         /\ request.input.checked =
                WindowSlots(request.input.start_hour, request.input.end_hour)
         /\ request.input.start_hour >= request.input.end_hour =>
                request.returned = PyList(<< >>) /\ request.input.checked = << >>
    ELSE FALSE

C32_AnalysisImpliesTranscript == current_analysis # None => current_transcript # None

\* a failing process_transcript on a session that holds an analysis: the new
\* transcript is stored next to the earlier analysis
C32_Witness ==
    /\ request.op = "process_transcript"
    /\ request.failed
    /\ current_analysis # None
    /\ current_transcript = Str(request.input)

=============================================================================
